---- MODULE Spec2Model ----
(***************************************************************************)
(* A model of the execution core of the flow library: the serial engine    *)
(* (Do, DoWith, InSerial, InSerialWith), the parallel engine               *)
(* (InParallel, InParallelWith over an errgroup.Group) and the retry       *)
(* engine (Retry with its predicate chain).                                *)
(*                                                                         *)
(* Each engine has its own variables and its own specification; the        *)
(* variables of the other engines stay at their idle values.               *)
(***************************************************************************)
EXTENDS Integers, Sequences, FiniteSets, TLC

VARIABLES
    \* ---- serial engine (DoWith / InSerialWith) ----
    spc,        \* position of the running call: idle, ploop, loop, instep, done,
                \* panic
    sfn,        \* the function whose closure is running: DoWith or InSerialWith
    sopts,      \* the Options value captured by the closure
    sprov,      \* the providers captured by InSerialWith
    sp,         \* index of the current provider (0 in DoWith)
    scur,       \* the steps being ranged over
    si,         \* index of the current step in scur
    serrs,      \* var errs []error
    sret,       \* the value the call returned
    slog,       \* history: every step call, step return and provider call
    sstate,     \* the state t the steps work on: a counter
    sseen,      \* history: the counter each provider call found in t
    \* ---- parallel engine (InParallelWith) ----
    ppc,        \* position of the coordinating call: idle, expand, launch,
                \* close, recv, done
    popts,      \* the ParallelOptions value captured by the closure
    pprov,      \* the providers captured by the closure
    pp,         \* index of the provider being expanded
    pall,       \* len(allSteps)
    pnext,      \* index of the next step handed to group.Go
    ust,        \* per unit: idle, running, sending, returned, done
    ures,       \* per unit: the error its step returned
    useen,      \* per unit: its running step has seen its context cancelled
    gerr,       \* errgroup.Group.err
    gonce,      \* errgroup.Group.errOnce has fired
    gsem,       \* number of tokens in errgroup.Group.sem
    gwg,        \* counter of errgroup.Group.wg
    subDone,    \* the cancel function of subCtx has been called
    ctxDone,    \* the caller's ctx is cancelled
    cst,        \* the collecting goroutine: none, ranging, sending, exit
    cerrs,      \* its stepErrs
    errsClosed, \* close(errs) has happened
    pret,       \* the value the call returned
    firstFail,  \* history: the first unit that completed with an error, or 0
    pcalls,     \* history: the steps of allSteps that were called, in order
    pcount,     \* the state t the steps work on: a counter
    pafter,     \* history: what a step of the enclosing scope that ran after
                \* the call read from ctx.Err(), or empty
    \* ---- retry engine (Retry) ----
    rpc,        \* position of the running call: idle, call, pred, wait,
                \* parked, done
    rpreds,     \* the predicates captured by the closure
    rfirst,     \* the step: the number of its first successful execution, or 0
    rexec,      \* how often the step has been executed
    rattempts,  \* attempts
    rk,         \* index of the predicate being evaluated
    rerr,       \* err, the error of the last attempt
    rret,       \* the value the call returned
    rctx,       \* ctx is cancelled
    rtimer,     \* the timer of the running wait has fired
    rwaits,     \* history: how many waits have been started
    rhist,      \* history: the error of every failed attempt
    rlog,       \* history: every finished predicate evaluation
    rsel,       \* history: every select of a backoff predicate that returned
    \* ---- delay of an ExponentialBackoff predicate ----
    bpc,        \* idle, or ready once ExponentialBackoff has returned the predicate
    bbase0,     \* the base the predicate was made with
    bmult,      \* cfg.multiplier, as a fraction
    bbase,      \* the variable base that the predicate's closure captured
    bcount,     \* history: how often the predicate has been called
    battempts,  \* history: the attempts argument of the last call
    bdelay,     \* history: the delay of the last call, before jitter and cap
    bseq,       \* history: N when the calls so far had attempts 1, 2, ..., N,
                \* as in the first Retry run of the predicate; -1 otherwise
    \* ---- names and tracing (Named, Names, Traced) ----
    wpc,        \* idle, running, done
    wf,         \* the workflow that runs: a tree of combinators over steps
    wst,        \* per node: new, called, inner (its callee runs), returned
    wctx,       \* per node: the context it was called with
    wret,       \* per node: the error it returned
    widx,       \* per Named node: idx, the index newEvent returned
    wcur,       \* per Do node: the index of the step it has called
    wgerr,      \* per InParallel node: the first error of its group
    wtid,       \* per Traced node: the trace it made
    warr,       \* per Named node: the array addName allocated for the names
    wcopy,      \* per step: the array its first call of Names returned
    wseen,      \* per step: what its two calls of Names returned
    traces,     \* the traces made so far
    \* ---- Trace.Filter ----
    fpc,        \* position: idle, made, filtered, wroteReturned, wroteOriginal
    ftrace,     \* the trace Filter is applied to
    fheap,      \* the arrays of the events' Names, by the index of the event that got them
    ffilters,   \* the filters given to Filter
    fout,       \* the trace Filter returned
    fsnap,       \* what the two traces held when Filter returned
    \* ---- OnError, Collect, Render, Apply and the stage combinators ----
    apc,        \* position: idle, running, done
    afn,        \* the combinator whose closure runs
    acfg,       \* what its callables do when they are called
    ai,         \* the callable to call next, or the index of the loop
    aat,        \* in a loop: check (before ctx.Err()) or call (before the callable)
    aval,       \* the value in hand: the last result, the error to handle, the results so far
    alog,       \* the calls of callables so far, each with its argument
    astate,     \* the state t: the marks the callables have left on it
    actx,       \* whether ctx is cancelled
    aret,        \* the value and the error returned
    \* ---- the context carrier under nested wrappers ----
    kpc,        \* position: idle, running, done
    kchain,     \* the wrappers around the probe, outermost first
    kdepth,     \* how many of them have been entered
    kctxs,      \* the contexts: the caller's, and the one each entered wrapper made
    kcancelled, \* the cancelled contexts of the chain, by the depth of their wrapper, in the order of their cancellation
    kobs        \* what the probe has read from its context so far

svars == <<spc, sfn, sopts, sprov, sp, scur, si, serrs, sret, slog, sstate,
          sseen>>

pvars == <<ppc, popts, pprov, pp, pall, pnext, ust, ures, useen, gerr, gonce,
           gsem, gwg, subDone, ctxDone, cst, cerrs, errsClosed, pret, firstFail, pcalls,
           pcount, pafter>>

rvars == <<rpc, rpreds, rfirst, rexec, rattempts, rk, rerr, rret, rctx, rtimer,
           rwaits, rhist, rlog, rsel>>

bvars == <<bpc, bbase0, bmult, bbase, bcount, battempts, bdelay, bseq>>

wvars == <<wpc, wf, wst, wctx, wret, widx, wcur, wgerr, wtid, warr, wcopy, wseen,
           traces>>

fvars == <<fpc, ftrace, fheap, ffilters, fout, fsnap>>

avars == <<apc, afn, acfg, ai, aat, aval, alog, astate, actx, aret>>

kvars == <<kpc, kchain, kdepth, kctxs, kcancelled, kobs>>

vars == <<svars, pvars, rvars, bvars, wvars, fvars, avars, kvars>>

\* What an action of one engine leaves alone: the other engines.
sother == <<pvars, rvars, bvars, wvars, fvars, avars, kvars>>

pother == <<svars, rvars, bvars, wvars, fvars, avars, kvars>>

rother == <<svars, pvars, bvars, wvars, fvars, avars, kvars>>

bother == <<svars, pvars, rvars, wvars, fvars, avars, kvars>>

wother == <<svars, pvars, rvars, bvars, fvars, avars, kvars>>

fother == <<svars, pvars, rvars, bvars, wvars, avars, kvars>>

aother == <<svars, pvars, rvars, bvars, wvars, fvars, kvars>>

kother == <<svars, pvars, rvars, bvars, wvars, fvars, avars>>

(***************************************************************************)
(* Bounds of the model.                                                    *)
(***************************************************************************)
MaxSteps == 3
MaxProviders == 2
MaxProvSteps == 2
MaxUnits == 3
MaxParProviders == 2
MaxLimit == 2
MaxUpTo == 3
MaxPreds == 2
MaxAttemptArg == 65
MaxCalls == 3
MaxNanos == 2000000000
MaxNest == 3

(***************************************************************************)
(* Errors.  nil is NilErr; every failing step and every failing provider   *)
(* returns an error value of its own; errors.Join builds an aggregate that *)
(* holds its non-nil arguments in order, and is nil when there are none.   *)
(***************************************************************************)
NilErr == [kind |-> "nil", p |-> 0, i |-> 0, parts |-> <<>>]

StepErr(p, i) == [kind |-> "step", p |-> p, i |-> i, parts |-> <<>>]

ProvErr(p) == [kind |-> "provider", p |-> p, i |-> 0, parts |-> <<>>]

\* context.Canceled, what ctx.Err() is once ctx is cancelled.
CanceledErr == [kind |-> "canceled", p |-> 0, i |-> 0, parts |-> <<>>]

RECURSIVE NonNil(_)
NonNil(errs) ==
    IF errs = <<>> THEN <<>>
    ELSE IF Head(errs) = NilErr THEN NonNil(Tail(errs))
    ELSE <<Head(errs)>> \o NonNil(Tail(errs))

Join(errs) ==
    IF NonNil(errs) = <<>> THEN NilErr
    ELSE [kind |-> "join", p |-> 0, i |-> 0, parts |-> NonNil(errs)]

(***************************************************************************)
(* Inputs.  A step is described by whether it fails; a provider either     *)
(* fails or returns a list of steps.                                       *)
(***************************************************************************)
SeqsUpTo(S, n) == UNION {[1..k -> S] : k \in 0..n}

StepLists == SeqsUpTo(BOOLEAN, MaxSteps)

\* A provider's list may hold a nil step: nil is its index, or 0; the other
\* steps are described by whether they fail.
Providers ==
    {[fails |-> TRUE, steps |-> <<>>, nil |-> 0]}
        \cup {r \in {[fails |-> FALSE, steps |-> s, nil |-> n] :
                         s \in SeqsUpTo(BOOLEAN, MaxProvSteps), n \in 0..MaxProvSteps} :
                 /\ r.nil <= Len(r.steps)
                 /\ r.nil > 0 => ~r.steps[r.nil]}

ProviderLists == SeqsUpTo(Providers, MaxProviders)

OptionsValues == {[JoinErrors |-> b] : b \in BOOLEAN}

DefaultOptions == [JoinErrors |-> FALSE]

Ev(kind, p, i) == [ev |-> kind, p |-> p, i |-> i]

(***************************************************************************)
(* Serial engine.                                                          *)
(***************************************************************************)
SerialInit ==
    /\ spc = "idle"
    /\ sfn = "none"
    /\ sopts = DefaultOptions
    /\ sprov = <<>>
    /\ sp = 0
    /\ scur = <<>>
    /\ si = 0
    /\ serrs = <<>>
    /\ sret = NilErr
    /\ slog = <<>>
    /\ sstate = 0
    /\ sseen = <<>>

\* DoWith(opts, steps...): the closure is entered with var errs []error.
DoWith(opts, steps) ==
    /\ UNCHANGED sother
    /\ spc = "idle"
    /\ spc' = "loop"
    /\ sfn' = "DoWith"
    /\ sopts' = opts
    /\ scur' = steps
    /\ si' = 1
    /\ sp' = 0
    /\ serrs' = <<>>
    /\ UNCHANGED <<sprov, sret, slog, sstate, sseen>>

\* Do(steps...) is DoWith(Options{}, steps...).
Do(steps) == DoWith(DefaultOptions, steps)

\* InSerialWith(opts, providers...): the closure is entered.
InSerialWith(opts, providers) ==
    /\ UNCHANGED sother
    /\ spc = "idle"
    /\ spc' = "ploop"
    /\ sfn' = "InSerialWith"
    /\ sopts' = opts
    /\ sprov' = providers
    /\ sp' = 1
    /\ scur' = <<>>
    /\ si' = 0
    /\ serrs' = <<>>
    /\ UNCHANGED <<sret, slog, sstate, sseen>>

\* InSerial(providers...) is InSerialWith(Options{}, providers...).
InSerial(providers) == InSerialWith(DefaultOptions, providers)

\* if !opts.JoinErrors { return err }: whether the first error ends the call.
StopsNever(opts) == FALSE

StopsAlways(opts) == TRUE

StopsAtFirstError(opts) == ~opts.JoinErrors

\* The error of the provider is dropped.
WithoutProviderErr(errs, err) == errs

\* errs = append(errs, err); continue: the error of a provider under
\* JoinErrors.
WithProviderErr(errs, err) == Append(errs, err)

\* for _, provider := range providers { steps, err := provider(ctx, t) ... }
InSerialCallProvider ==
    /\ UNCHANGED sother
    /\ spc = "ploop"
    /\ sp <= Len(sprov)
    /\ slog' = Append(slog, Ev("provider", sp, 0))
    /\ sseen' = Append(sseen, sstate)
    /\ IF sprov[sp].fails
       THEN IF StopsAtFirstError(sopts)
            THEN /\ sret' = ProvErr(sp)
                 /\ spc' = "done"
                 /\ UNCHANGED <<sp, scur, si, serrs>>
            ELSE /\ serrs' = WithProviderErr(serrs, ProvErr(sp))
                 /\ sp' = sp + 1
                 /\ UNCHANGED <<spc, scur, si, sret>>
       ELSE /\ scur' = sprov[sp].steps
            /\ si' = 1
            /\ spc' = "loop"
            /\ UNCHANGED <<sp, serrs, sret>>
    /\ UNCHANGED <<sfn, sopts, sprov, sstate>>

\* The range over providers is exhausted: return errors.Join(errs...).
InSerialFinish ==
    /\ UNCHANGED sother
    /\ spc = "ploop"
    /\ sp > Len(sprov)
    /\ sret' = Join(serrs)
    /\ spc' = "done"
    /\ UNCHANGED <<sfn, sopts, sprov, sp, scur, si, serrs, slog, sstate, sseen>>

\* The step about to be called is nil.
StepIsNil == sfn = "InSerialWith" /\ sprov[sp].nil = si

\* for _, step := range steps { step(ctx, t) ... }: the call of the next step.
\* The call of a nil func panics, and the closure never returns.
SerialCallStep ==
    /\ UNCHANGED sother
    /\ spc = "loop"
    /\ si <= Len(scur)
    /\ IF StepIsNil
       THEN /\ spc' = "panic"
            /\ UNCHANGED slog
       ELSE /\ slog' = Append(slog, Ev("call", sp, si))
            /\ spc' = "instep"
    /\ UNCHANGED <<sfn, sopts, sprov, sp, scur, si, serrs, sret, sstate, sseen>>

\* The step works on a copy of the state.
StepEffectOnCopy(state) == state

\* What a step does to the state t it is called with: as Increment and
\* IncrementAndFail do, it adds to the counter, whether it fails or not.
StepEffect(state) == state + 1

\* if err := step(ctx, t); err != nil { if !opts.JoinErrors { return err };
\* errs = append(errs, err) }
SerialStepReturn ==
    /\ UNCHANGED sother
    /\ spc = "instep"
    /\ slog' = Append(slog, Ev("ret", sp, si))
    /\ sstate' = StepEffect(sstate)
    /\ IF scur[si]
       THEN IF StopsAtFirstError(sopts)
            THEN /\ sret' = StepErr(sp, si)
                 /\ spc' = "done"
                 /\ UNCHANGED <<si, serrs>>
            ELSE /\ serrs' = Append(serrs, StepErr(sp, si))
                 /\ si' = si + 1
                 /\ spc' = "loop"
                 /\ UNCHANGED sret
       ELSE /\ si' = si + 1
            /\ spc' = "loop"
            /\ UNCHANGED <<serrs, sret>>
    /\ UNCHANGED <<sfn, sopts, sprov, sp, scur, sseen>>

\* The range over steps is exhausted: DoWith returns errors.Join(errs...),
\* InSerialWith goes on with the next provider.
SerialStepsDone ==
    /\ UNCHANGED sother
    /\ spc = "loop"
    /\ si > Len(scur)
    /\ IF sfn = "DoWith"
       THEN /\ sret' = Join(serrs)
            /\ spc' = "done"
            /\ UNCHANGED sp
       ELSE /\ sp' = sp + 1
            /\ spc' = "ploop"
            /\ UNCHANGED sret
    /\ UNCHANGED <<sfn, sopts, sprov, scur, si, serrs, slog, sstate, sseen>>

SerialNext ==
    \/ spc = "idle" /\ \E steps \in StepLists : Do(steps)
    \/ spc = "idle" /\ \E opts \in OptionsValues, steps \in StepLists :
           DoWith(opts, steps)
    \/ spc = "idle" /\ \E providers \in ProviderLists : InSerial(providers)
    \/ spc = "idle" /\ \E opts \in OptionsValues, providers \in ProviderLists :
           InSerialWith(opts, providers)
    \/ InSerialCallProvider
    \/ InSerialFinish
    \/ SerialCallStep
    \/ SerialStepReturn
    \/ SerialStepsDone


(***************************************************************************)
(* Properties of the serial engine.                                        *)
(***************************************************************************)
IsPrefix(a, b) == Len(a) <= Len(b) /\ a = SubSeq(b, 1, Len(a))

\* The first failing index of a step list, or 0.
FirstFailing(steps) ==
    IF \E i \in DOMAIN steps : steps[i]
    THEN CHOOSE i \in DOMAIN steps : steps[i] /\ \A j \in 1..(i - 1) : ~steps[j]
    ELSE 0

\* The calls and returns of steps 1..n of provider p, one after the other.
RunOf(p, n) ==
    [m \in 1..(2 * n) |->
        IF m % 2 = 1 THEN Ev("call", p, (m + 1) \div 2) ELSE Ev("ret", p, m \div 2)]

\* What a fail-fast serial run does: every step up to the first failing one.
FailFastRunOf(p, steps) ==
    RunOf(p, IF FirstFailing(steps) = 0 THEN Len(steps) ELSE FirstFailing(steps))

RECURSIVE FailFastPlan(_, _)
FailFastPlan(provs, p) ==
    IF p > Len(provs) THEN <<>>
    ELSE <<Ev("provider", p, 0)>> \o
         (IF provs[p].fails THEN <<>>
          ELSE FailFastRunOf(p, provs[p].steps) \o
               (IF FirstFailing(provs[p].steps) # 0 THEN <<>>
                ELSE FailFastPlan(provs, p + 1)))

RECURSIVE FailFastResult(_, _)
FailFastResult(provs, p) ==
    IF p > Len(provs) THEN NilErr
    ELSE IF provs[p].fails THEN ProvErr(p)
    ELSE IF FirstFailing(provs[p].steps) # 0
         THEN StepErr(p, FirstFailing(provs[p].steps))
    ELSE FailFastResult(provs, p + 1)

\* C1: serial fail-fast (Do, DoWith and InSerial with default options): the
\* steps run in order up to and including the first one that fails, no step
\* after it is ever invoked, and the call returns exactly that step's error,
\* not an aggregate; when nothing fails every step runs and the call returns
\* nil.
C1_SerialFailFast ==
    (spc # "idle" /\ ~sopts.JoinErrors) =>
        /\ sfn = "DoWith" =>
              /\ IsPrefix(slog, FailFastRunOf(0, scur))
              /\ spc = "done" =>
                    /\ slog = FailFastRunOf(0, scur)
                    /\ sret = IF FirstFailing(scur) = 0 THEN NilErr
                              ELSE StepErr(0, FirstFailing(scur))
        /\ sfn = "InSerialWith" =>
              /\ IsPrefix(slog, FailFastPlan(sprov, 1))
              /\ spc = "done" =>
                    /\ slog = FailFastPlan(sprov, 1)
                    /\ sret = FailFastResult(sprov, 1)

\* A fail-fast DoWith that returned the error of its second step of three,
\* and a fail-fast InSerial that returned the error of a step.
C1_Witness ==
    /\ spc = "done"
    /\ ~sopts.JoinErrors
    /\ \/ sfn = "DoWith" /\ Len(scur) = 3 /\ sret = StepErr(0, 2)
       \/ sfn = "InSerialWith" /\ Len(sprov) = 2 /\ sret = StepErr(1, 1)

\* The errors of the failing steps of a list, in order.
FailuresOf(p, steps) ==
    SelectSeq([i \in DOMAIN steps |-> IF steps[i] THEN StepErr(p, i) ELSE NilErr],
              LAMBDA e : e.kind # "nil")

\* C2: serial join (DoWith with JoinErrors = true): every step is invoked
\* exactly once, in written order, each returning before the next is called,
\* whatever failed before; the result is nil when no step failed and otherwise
\* an aggregate holding every failing step's error in encounter order.
C2_SerialJoin ==
    (spc # "idle" /\ sfn = "DoWith" /\ sopts.JoinErrors) =>
        /\ IsPrefix(slog, RunOf(0, Len(scur)))
        /\ spc = "done" =>
              /\ slog = RunOf(0, Len(scur))
              /\ IF FailuresOf(0, scur) = <<>>
                 THEN sret = NilErr
                 ELSE /\ sret.kind = "join"
                      /\ sret.parts = FailuresOf(0, scur)

\* A joining DoWith over three steps of which the first and the last failed.
C2_Witness ==
    /\ spc = "done"
    /\ sfn = "DoWith"
    /\ sopts.JoinErrors
    /\ scur = <<TRUE, FALSE, TRUE>>
    /\ sret.kind = "join"

(***************************************************************************)
(* Parallel engine: InParallelWith over an errgroup.Group.                 *)
(*                                                                         *)
(* A provider either fails or returns n steps.  What a step does is left   *)
(* open: it may check its context at any moment, and it returns nil, an    *)
(* error of its own, or (once it has seen its context cancelled) the       *)
(* context's error.                                                        *)
(***************************************************************************)
ParProviders ==
    {[fails |-> TRUE, n |-> 0]} \cup {[fails |-> FALSE, n |-> k] : k \in 0..MaxUnits}

RECURSIVE TotalSteps(_)
TotalSteps(providers) ==
    IF providers = <<>> THEN 0
    ELSE Head(providers).n + TotalSteps(Tail(providers))

ParProviderLists ==
    {ps \in SeqsUpTo(ParProviders, MaxParProviders) : TotalSteps(ps) <= MaxUnits}

Limits == {-1, 0} \cup 1..MaxLimit

ParallelOptionsValues ==
    {[Limit |-> l, JoinErrors |-> b] : l \in Limits, b \in BOOLEAN}

DefaultParallelOptions == [Limit |-> 0, JoinErrors |-> FALSE]

Units == DOMAIN ust

ParallelInit ==
    /\ ppc = "idle"
    /\ popts = DefaultParallelOptions
    /\ pprov = <<>>
    /\ pp = 0
    /\ pall = 0
    /\ pnext = 0
    /\ ust = <<>>
    /\ ures = <<>>
    /\ useen = <<>>
    /\ gerr = NilErr
    /\ gonce = FALSE
    /\ gsem = 0
    /\ gwg = 0
    /\ subDone = FALSE
    /\ ctxDone = FALSE
    /\ cst = "none"
    /\ cerrs = <<>>
    /\ errsClosed = FALSE
    /\ pret = NilErr
    /\ firstFail = 0
    /\ pcalls = <<>>
    /\ pcount = 0
    /\ pafter = <<>>

\* InParallelWith(opts, providers...): the closure is entered.
InParallelWith(opts, providers) ==
    /\ UNCHANGED pother
    /\ UNCHANGED <<pcalls, pcount, pafter>>
    /\ ppc = "idle"
    /\ ppc' = "expand"
    /\ popts' = opts
    /\ pprov' = providers
    /\ pp' = 1
    /\ pall' = 0
    /\ UNCHANGED <<pnext, ust, ures, useen, gerr, gonce, gsem, gwg, subDone,
                   ctxDone, cst, cerrs, errsClosed, pret, firstFail>>

\* InParallel(providers...) is InParallelWith(ParallelOptions{}, providers...).
InParallel(providers) == InParallelWith(DefaultParallelOptions, providers)

\* A provider's error is ignored and the expansion goes on.
ExpandProviderIgnoringError ==
    /\ UNCHANGED pother
    /\ UNCHANGED <<pcalls, pcount, pafter>>
    /\ ppc = "expand"
    /\ pp <= Len(pprov)
    /\ pall' = pall + pprov[pp].n
    /\ pp' = pp + 1
    /\ UNCHANGED <<ppc, popts, pprov, pnext, ust, ures, useen, gerr, gonce, gsem,
                   gwg, subDone, ctxDone, cst, cerrs, errsClosed, pret, firstFail>>

\* for _, next := range providers { steps, err := next(ctx, t);
\* if err != nil { return err }; allSteps = append(allSteps, steps...) }
ExpandProvider ==
    /\ UNCHANGED pother
    /\ UNCHANGED <<pcalls, pcount, pafter>>
    /\ ppc = "expand"
    /\ pp <= Len(pprov)
    /\ IF pprov[pp].fails
       THEN /\ pret' = ProvErr(pp)
            /\ ppc' = "done"
            /\ UNCHANGED <<pp, pall>>
       ELSE /\ pall' = pall + pprov[pp].n
            /\ pp' = pp + 1
            /\ UNCHANGED <<ppc, pret>>
    /\ UNCHANGED <<popts, pprov, pnext, ust, ures, useen, gerr, gonce, gsem, gwg,
                   subDone, ctxDone, cst, cerrs, errsClosed, firstFail>>

\* group, subCtx := errgroup.WithContext(ctx); group.SetLimit(opts.Limit) when
\* opts.Limit > 0; with JoinErrors the channels are made and the collecting
\* goroutine is started.
SetupGroup ==
    /\ UNCHANGED pother
    /\ UNCHANGED <<pcalls, pcount, pafter>>
    /\ ppc = "expand"
    /\ pp > Len(pprov)
    /\ ppc' = "launch"
    /\ pnext' = 1
    /\ ust' = [i \in 1..pall |-> "idle"]
    /\ ures' = [i \in 1..pall |-> NilErr]
    /\ useen' = [i \in 1..pall |-> FALSE]
    /\ gerr' = NilErr
    /\ gonce' = FALSE
    /\ gsem' = 0
    /\ gwg' = 0
    /\ subDone' = FALSE
    /\ cst' = IF popts.JoinErrors THEN "ranging" ELSE "none"
    /\ cerrs' = <<>>
    /\ errsClosed' = FALSE
    /\ UNCHANGED <<popts, pprov, pp, pall, ctxDone, pret, firstFail>>

\* Whether the group has a semaphore: if opts.Limit > 0 { group.SetLimit(...) }.
Unlimited == FALSE

HasLimit == popts.Limit > 0

\* Every closure calls the step of the last iteration.
CapturedLast(i) == pall

\* group.Go(func() error { err := step(subCtx, t) ... }) in the range over
\* allSteps: the closure of the i-th iteration calls the i-th step.
Captured(i) == i

\* The steps of TestSmoke/Parallel: Increment(15), Decrement(5), Increment(21),
\* Decrement(10), Decrement(11), and so on.
Amounts == <<15, -5, 21, -10, -11>>

\* What step k, returning err, has added to the counter: its amount, also when
\* it fails of its own; nothing when it returns the error of its context.
Effect(k, err) ==
    IF err = CanceledErr THEN 0 ELSE Amounts[((k - 1) % Len(Amounts)) + 1]

\* group.Go(f): with a limit, blocks until a token fits into the semaphore;
\* then wg.Add(1) and the goroutine that calls step(subCtx, t) is started.
GroupGo ==
    /\ UNCHANGED pother
    /\ pcalls' = Append(pcalls, Captured(pnext))
    /\ UNCHANGED <<pcount, pafter>>
    /\ ppc = "launch"
    /\ pnext <= pall
    /\ HasLimit => gsem < popts.Limit
    /\ gsem' = IF HasLimit THEN gsem + 1 ELSE gsem
    /\ gwg' = gwg + 1
    /\ ust' = [ust EXCEPT ![pnext] = "running"]
    /\ pnext' = pnext + 1
    /\ UNCHANGED <<ppc, popts, pprov, pp, pall, ures, useen, gerr, gonce, subDone,
                   ctxDone, cst, cerrs, errsClosed, pret, firstFail>>

\* The context a step is called with: step(subCtx, t).  subCtx is done when its
\* cancel function was called or when its parent ctx is done.
StepCtxIsCallersCtx == ctxDone

StepCtxDone == subDone \/ ctxDone

\* A running step looks at its context (ctx.Err(), or a select on ctx.Done()),
\* as often as it likes; useen[i] is whether it has seen it cancelled.
UnitCheckCtx(i) ==
    /\ UNCHANGED pother
    /\ UNCHANGED <<pcalls, pcount, pafter>>
    /\ ust[i] = "running"
    /\ ~useen[i]
    /\ useen' = [useen EXCEPT ![i] = StepCtxDone]
    /\ UNCHANGED <<ppc, popts, pprov, pp, pall, pnext, ust, ures, gerr, gonce, gsem,
                   gwg, subDone, ctxDone, cst, cerrs, errsClosed, pret, firstFail>>

\* The errors a step may return.
StepOutcomes(i) ==
    {NilErr, StepErr(0, i)} \cup (IF useen[i] THEN {CanceledErr} ELSE {})

\* The closure returns without handing its error over.
AfterStepReturns == "returned"

\* if opts.JoinErrors { errs <- err; return nil }; return err: what the closure
\* does when its step has returned.
AfterStep == IF popts.JoinErrors THEN "sending" ELSE "returned"

\* err := step(subCtx, t) returns.  With JoinErrors the unit goes on to
\* errs <- err, which blocks until the collecting goroutine receives; without,
\* the unit returns err to the group.
UnitStepReturn(i, err) ==
    /\ UNCHANGED pother
    /\ pcount' = pcount + Effect(Captured(i), err)
    /\ UNCHANGED <<pcalls, pafter>>
    /\ ust[i] = "running"
    /\ ures' = [ures EXCEPT ![i] = err]
    /\ ust' = [ust EXCEPT ![i] = AfterStep]
    /\ useen' = [useen EXCEPT ![i] = FALSE]
    /\ UNCHANGED <<ppc, popts, pprov, pp, pall, pnext, gerr, gonce, gsem, gwg,
                   subDone, ctxDone, cst, cerrs, errsClosed, pret, firstFail>>

\* for err := range errs { if err == nil { continue };
\* stepErrs = append(stepErrs, err) } meets a unit's errs <- err; the unit then
\* returns nil to the group.
CollectorReceive(i) ==
    /\ UNCHANGED pother
    /\ UNCHANGED <<pcalls, pcount, pafter>>
    /\ cst = "ranging"
    /\ ust[i] = "sending"
    /\ cerrs' = IF ures[i] = NilErr THEN cerrs ELSE Append(cerrs, ures[i])
    /\ ust' = [ust EXCEPT ![i] = "returned"]
    /\ UNCHANGED <<ppc, popts, pprov, pp, pall, pnext, ures, useen, gerr, gonce,
                   gsem, gwg, subDone, ctxDone, cst, errsClosed, pret, firstFail>>

\* The function given to group.Go returns the step's error in both policies.
GroupResultAlwaysErr(i) == ures[i]

\* What the function given to group.Go returns: nil with JoinErrors, the
\* step's error without.
GroupResult(i) == IF popts.JoinErrors THEN NilErr ELSE ures[i]

\* The group keeps the error of every failing unit: the last one wins.
GroupRecordsLast(err) == TRUE

\* g.errOnce.Do(...): only the first non-nil error is recorded.
GroupRecords(err) == err # NilErr /\ ~gonce

\* The cancel function of the group cancels the context the caller gave.
CancelReachesCaller(done) == TRUE

\* group, subCtx := errgroup.WithContext(ctx): the cancel function of the
\* group cancels subCtx, a child of ctx; it leaves ctx as it is.
CallerAfterCancel(done) == done

\* The goroutine of group.Go after f returned: a non-nil error goes through
\* errOnce (g.err = err; g.cancel(g.err)), then done() takes the token back
\* from the semaphore and calls wg.Done().
UnitFinish(i) ==
    /\ UNCHANGED pother
    /\ UNCHANGED <<pcalls, pcount, pafter>>
    /\ ust[i] = "returned"
    /\ IF GroupResult(i) # NilErr /\ GroupRecords(GroupResult(i))
       THEN /\ gerr' = GroupResult(i)
            /\ gonce' = TRUE
            /\ subDone' = TRUE
            /\ ctxDone' = CallerAfterCancel(ctxDone)
       ELSE UNCHANGED <<gerr, gonce, subDone, ctxDone>>
    /\ gsem' = IF HasLimit THEN gsem - 1 ELSE gsem
    /\ gwg' = gwg - 1
    /\ ust' = [ust EXCEPT ![i] = "done"]
    /\ firstFail' = IF firstFail = 0 /\ ures[i] # NilErr THEN i ELSE firstFail
    /\ UNCHANGED <<ppc, popts, pprov, pp, pall, pnext, ures, useen, cst, cerrs,
                   errsClosed, pret>>

\* g.wg.Wait() returns at once.
WaitIsOver == TRUE

\* g.wg.Wait() returns when the counter is zero.
WaitGroupIsZero == gwg = 0

\* err := group.Wait() after the last group.Go: blocks until every goroutine
\* of the group is done, calls the cancel function of subCtx and returns
\* g.err.  Without JoinErrors that is the result of the call.
GroupWait ==
    /\ UNCHANGED pother
    /\ UNCHANGED <<pcalls, pcount, pafter>>
    /\ ppc = "launch"
    /\ pnext > pall
    /\ WaitGroupIsZero
    /\ subDone' = TRUE
    /\ ctxDone' = CallerAfterCancel(ctxDone)
    /\ IF popts.JoinErrors
       THEN /\ ppc' = "close"
            /\ UNCHANGED pret
       ELSE /\ ppc' = "done"
            /\ pret' = gerr
    /\ UNCHANGED <<popts, pprov, pp, pall, pnext, ust, ures, useen, gerr, gonce,
                   gsem, gwg, cst, cerrs, errsClosed, firstFail>>

\* close(errs)
CloseErrs ==
    /\ UNCHANGED pother
    /\ UNCHANGED <<pcalls, pcount, pafter>>
    /\ ppc = "close"
    /\ errsClosed' = TRUE
    /\ ppc' = "recv"
    /\ UNCHANGED <<popts, pprov, pp, pall, pnext, ust, ures, useen, gerr, gonce,
                   gsem, gwg, subDone, ctxDone, cst, cerrs, pret, firstFail>>

\* The range over errs ends once errs is closed and nobody is sending; the
\* collecting goroutine goes on to joinedErr <- errors.Join(stepErrs...).
CollectorRangeEnds ==
    /\ UNCHANGED pother
    /\ UNCHANGED <<pcalls, pcount, pafter>>
    /\ cst = "ranging"
    /\ errsClosed
    /\ \A i \in Units : ust[i] # "sending"
    /\ cst' = "sending"
    /\ UNCHANGED <<ppc, popts, pprov, pp, pall, pnext, ust, ures, useen, gerr,
                   gonce, gsem, gwg, subDone, ctxDone, cerrs, errsClosed, pret,
                   firstFail>>

\* err = <-joinedErr meets joinedErr <- errors.Join(stepErrs...); return err.
ReceiveJoined ==
    /\ UNCHANGED pother
    /\ UNCHANGED <<pcalls, pcount, pafter>>
    /\ ppc = "recv"
    /\ cst = "sending"
    /\ pret' = Join(cerrs)
    /\ cst' = "exit"
    /\ ppc' = "done"
    /\ UNCHANGED <<popts, pprov, pp, pall, pnext, ust, ures, useen, gerr, gonce,
                   gsem, gwg, subDone, ctxDone, cerrs, errsClosed, firstFail>>

\* The call has returned to an enclosing scope that goes on (DoWith after a
\* step that returned nil, or any error with JoinErrors): the next step is
\* called with the ctx the scope was given, and reads ctx.Err().
EnclosingStep ==
    /\ UNCHANGED pother
    /\ ppc = "done"
    /\ pafter = <<>>
    /\ pafter' = <<IF ctxDone THEN CanceledErr ELSE NilErr>>
    /\ UNCHANGED <<ppc, popts, pprov, pp, pall, pnext, ust, ures, useen, gerr,
                   gonce, gsem, gwg, subDone, ctxDone, cst, cerrs, errsClosed, pret,
                   firstFail, pcalls, pcount>>

ParallelNext ==
    \/ ppc = "idle" /\ \E providers \in ParProviderLists : InParallel(providers)
    \/ ppc = "idle" /\ \E opts \in ParallelOptionsValues,
                           providers \in ParProviderLists :
           InParallelWith(opts, providers)
    \/ ExpandProvider
    \/ SetupGroup
    \/ GroupGo
    \/ \E i \in Units : UnitCheckCtx(i)
    \/ \E i \in Units : \E err \in StepOutcomes(i) : UnitStepReturn(i, err)
    \/ \E i \in Units : CollectorReceive(i)
    \/ \E i \in Units : UnitFinish(i)
    \/ GroupWait
    \/ CloseErrs
    \/ CollectorRangeEnds
    \/ ReceiveJoined
    \/ EnclosingStep

(***************************************************************************)
(* Properties of the parallel engine.                                      *)
(***************************************************************************)
\* The group exists and some unit has completed with an error.
SomeUnitFailed == \E j \in Units : ust[j] = "done" /\ ures[j] # NilErr

\* The units that hold a place of the group: started and not yet done.
InFlight == {i \in Units : ust[i] \in {"running", "sending", "returned"}}

FirstFailingProvider(providers) ==
    IF \E q \in DOMAIN providers : providers[q].fails
    THEN CHOOSE q \in DOMAIN providers :
             providers[q].fails /\ \A r \in 1..(q - 1) : ~providers[r].fails
    ELSE 0

Range(f) == {f[x] : x \in DOMAIN f}

\* C3: parallel fail-fast cancellation (JoinErrors = false): once a unit has
\* completed with an error, the context the steps were called with is
\* cancelled, and every step that checks its context from then on sees it
\* cancelled.
C3_FailFastCancels ==
    /\ []((~popts.JoinErrors /\ SomeUnitFailed) => StepCtxDone)
    /\ [][\A i \in Units :
             (~popts.JoinErrors /\ SomeUnitFailed /\ UnitCheckCtx(i)) => useen'[i]]_vars

\* A unit failed with its own error and a sibling, still running, has seen its
\* context cancelled.
C3_Witness ==
    /\ ~popts.JoinErrors
    /\ \E j \in Units : ust[j] = "done" /\ ures[j] = StepErr(0, j)
    /\ \E i \in Units : ust[i] = "running" /\ useen[i]

\* C4: parallel fail-fast result (JoinErrors = false): the call returns the
\* error of the failing unit that completed first; the errors of units that
\* completed later, cancellation errors included, are dropped; the result is
\* nil exactly when no unit returned an error.
C4_FailFastResult ==
    (ppc = "done" /\ ~popts.JoinErrors /\ FirstFailingProvider(pprov) = 0) =>
        /\ pret = IF firstFail = 0 THEN NilErr ELSE ures[firstFail]
        /\ pret = NilErr <=> \A i \in Units : ures[i] = NilErr

\* Three units: the result is one unit's own error, a second unit's own error
\* and a third unit's cancellation error were dropped.
C4_Witness ==
    /\ ppc = "done"
    /\ ~popts.JoinErrors
    /\ pret.kind = "step"
    /\ \E i \in Units : ures[i].kind = "step" /\ ures[i] # pret
    /\ \E i \in Units : ures[i] = CanceledErr

\* C5: parallel join (JoinErrors = true): while a unit is not done the context
\* of the steps is not cancelled, whatever failed; the call returns only when
\* every unit is done; the result is nil when no unit failed and otherwise an
\* aggregate of exactly the errors of the failing units.
C5_ParallelJoin ==
    (ppc # "idle" /\ popts.JoinErrors) =>
        /\ (\E i \in Units : ust[i] # "done") => ~StepCtxDone
        /\ \A i \in Units : ~useen[i] /\ ures[i] # CanceledErr
        /\ (ppc = "done" /\ FirstFailingProvider(pprov) = 0) =>
              /\ \A i \in Units : ust[i] = "done"
              /\ IF \A i \in Units : ures[i] = NilErr
                 THEN pret = NilErr
                 ELSE /\ pret.kind = "join"
                      /\ Range(pret.parts) = {ures[i] : i \in Units} \ {NilErr}
                      /\ Len(pret.parts) = Cardinality({i \in Units : ures[i] # NilErr})

\* A joining call under Limit 1 over three units of which two failed.
C5_Witness ==
    /\ ppc = "done"
    /\ popts.JoinErrors
    /\ popts.Limit = 1
    /\ pall = 3
    /\ pret.kind = "join"
    /\ Len(pret.parts) = 2

\* C6: bounded concurrency: with Limit = L > 0 never more than L units are
\* between their start and their end (so never more than L steps execute at
\* once), in both error policies; with Limit <= 0 group.Go never has to wait.
C6_BoundedConcurrency ==
    /\ popts.Limit > 0 => Cardinality(InFlight) <= popts.Limit
    /\ (popts.Limit <= 0 /\ ppc = "launch" /\ pnext <= pall) => ENABLED GroupGo

\* Limit 2 and three units: two are running and the third has to wait.
C6_Witness ==
    /\ popts.Limit = 2
    /\ pall = 3
    /\ ppc = "launch"
    /\ Cardinality({i \in Units : ust[i] = "running"}) = 2
    /\ ust[3] = "idle"

\* Without a limit all three units run at once.
C6_WitnessUnbounded ==
    /\ popts.Limit <= 0
    /\ pall = 3
    /\ \A i \in Units : ust[i] = "running"

\* C7: InParallelWith returns only when every unit it launched is done: once
\* group.Wait() has returned no unit is running, in both error policies and
\* also after a fail-fast cancellation.
C7_ReturnsAfterAllUnits ==
    ppc \in {"close", "recv", "done"} => \A i \in Units : ust[i] = "done"

\* The call returned a unit's error after three units ran, one of which ended
\* with a cancellation error.
C7_Witness ==
    /\ ppc = "done"
    /\ pall = 3
    /\ pret.kind = "step"
    /\ \E i \in Units : ures[i] = CanceledErr
    /\ \A i \in Units : ust[i] = "done"

\* C8: parallel provider expansion: no unit is started before every provider
\* has been expanded; when a provider fails the call returns that provider's
\* error, providers after it are not called and no step is ever run, in both
\* error policies.
C8_ProviderExpansion ==
    /\ (ust # <<>>) =>
          /\ pp = Len(pprov) + 1
          /\ Len(ust) = TotalSteps(pprov)
    /\ (ppc # "idle" /\ FirstFailingProvider(pprov) # 0) =>
          /\ ust = <<>>
          /\ gwg = 0
          /\ pp <= FirstFailingProvider(pprov)
          /\ ppc = "done" => pret = ProvErr(FirstFailingProvider(pprov))

\* A joining call whose first provider gave two steps and whose second
\* provider failed.
C8_Witness ==
    /\ ppc = "done"
    /\ popts.JoinErrors
    /\ Len(pprov) = 2
    /\ pprov[1] = [fails |-> FALSE, n |-> 2]
    /\ pret = ProvErr(2)

(***************************************************************************)
(* Retry engine.                                                           *)
(*                                                                         *)
(* The step fails until its rfirst-th execution (always, when rfirst = 0), *)
(* as FailUntilCount does; each failure returns an error of its own, which *)
(* is retryable or permanent.  The model stops executing the step after    *)
(* MaxExecs executions.                                                    *)
(***************************************************************************)
MaxExecs == MaxUpTo + 1

ErrorClasses == {"retryable", "permanent"}

AttemptErr(a, class) == [kind |-> class, p |-> a, i |-> 0, parts |-> <<>>]

\* The functions given to OnlyIf: errors.Is(err, errorRetryable), and the two
\* constant ones.
Checks == {"isRetryable", "always", "never"}

Accepts(check, err) ==
    CASE check = "isRetryable" -> err.kind = "retryable"
      [] check = "always" -> TRUE
      [] check = "never" -> FALSE

RetryPredicates ==
    {[kind |-> "UpTo", n |-> n, check |-> "always"] : n \in 0..MaxUpTo}
        \cup {[kind |-> "OnlyIf", n |-> 0, check |-> c] : c \in Checks}
        \cup {[kind |-> b, n |-> 0, check |-> "always"] :
                 b \in {"FixedBackoff", "ExponentialBackoff"}}

PredicateChains == SeqsUpTo(RetryPredicates, MaxPreds)

\* UpTo(3), the first of the default predicates.
DefaultMaxAttempts == 3

\* predicates = []RetryPredicate{UpTo(3), ExponentialBackoff(100ms, WithFullJitter())}
DefaultPredicates ==
    <<[kind |-> "UpTo", n |-> DefaultMaxAttempts, check |-> "always"],
      [kind |-> "ExponentialBackoff", n |-> 0, check |-> "always"]>>

RetryInit ==
    /\ rpc = "idle"
    /\ rpreds = <<>>
    /\ rfirst = 0
    /\ rexec = 0
    /\ rattempts = 0
    /\ rk = 0
    /\ rerr = NilErr
    /\ rret = NilErr
    /\ rctx = FALSE
    /\ rtimer = FALSE
    /\ rwaits = 0
    /\ rhist = <<>>
    /\ rlog = <<>>
    /\ rsel = <<>>

\* Retry(step, predicates...): the defaults are set when no predicate is given,
\* and the closure is entered with attempts := 0.
Retry(first, predicates) ==
    /\ UNCHANGED rother
    /\ rpc = "idle"
    /\ rpc' = "call"
    /\ rpreds' = IF Len(predicates) = 0 THEN DefaultPredicates ELSE predicates
    /\ rfirst' = first
    /\ rattempts' = 0
    /\ UNCHANGED <<rexec, rk, rerr, rret, rctx, rtimer, rwaits, rhist, rlog, rsel>>

\* Whether the step's e-th execution succeeds.
StepSucceeds(e) == rfirst # 0 /\ e >= rfirst

\* err := step(ctx, t); if err == nil { return nil }; attempts++
RetryCallStep ==
    /\ UNCHANGED rother
    /\ rpc = "call"
    /\ rexec < MaxExecs
    /\ rexec' = rexec + 1
    /\ IF StepSucceeds(rexec + 1)
       THEN /\ rret' = NilErr
            /\ rpc' = "done"
            /\ UNCHANGED <<rattempts, rk, rerr, rhist>>
       ELSE \E class \in ErrorClasses :
            /\ rerr' = AttemptErr(rexec + 1, class)
            /\ rhist' = Append(rhist, AttemptErr(rexec + 1, class))
            /\ rattempts' = rattempts + 1
            /\ rk' = 1
            /\ rpc' = "pred"
            /\ UNCHANGED rret
    /\ UNCHANGED <<rpreds, rfirst, rctx, rtimer, rwaits, rlog, rsel>>

\* UpTo approves one attempt more.
UpToInclusive(maxAttempts, attempts) == attempts <= maxAttempts

\* UpTo(maxAttempts): return attempts < maxAttempts
UpTo(maxAttempts, attempts) == attempts < maxAttempts

\* OnlyIf(check): return check(err)
OnlyIf(check, err) == Accepts(check, err)

IsBackoff(pred) == pred.kind \in {"FixedBackoff", "ExponentialBackoff"}

Evaluated(a, k, ok) == [a |-> a, k |-> k, ok |-> ok]

\* A predicate that returns false does not end the loop over the predicates.
RetryNextPredicateKeepsGoing ==
    /\ UNCHANGED rother
    /\ rpc = "pred"
    /\ rk <= Len(rpreds)
    /\ IF IsBackoff(rpreds[rk])
       THEN /\ rpc' = "wait"
            /\ rtimer' = FALSE
            /\ rwaits' = rwaits + 1
            /\ UNCHANGED <<rk, rlog>>
       ELSE LET ok == IF rpreds[rk].kind = "UpTo"
                      THEN UpTo(rpreds[rk].n, rattempts)
                      ELSE OnlyIf(rpreds[rk].check, rerr)
            IN  /\ rlog' = Append(rlog, Evaluated(rattempts, rk, ok))
                /\ rk' = rk + 1
                /\ UNCHANGED <<rpc, rtimer, rwaits>>
    /\ UNCHANGED <<rpreds, rfirst, rexec, rattempts, rerr, rret, rctx, rhist, rsel>>

\* for _, predicate := range predicates {
\*     if !predicate(ctx, attempts, err) { return err } }
\* UpTo and OnlyIf return at once; a backoff predicate makes its timer and
\* goes into its select.
RetryNextPredicate ==
    /\ UNCHANGED rother
    /\ rpc = "pred"
    /\ rk <= Len(rpreds)
    /\ IF IsBackoff(rpreds[rk])
       THEN /\ rpc' = "wait"
            /\ rtimer' = FALSE
            /\ rwaits' = rwaits + 1
            /\ UNCHANGED <<rk, rret, rlog>>
       ELSE LET ok == IF rpreds[rk].kind = "UpTo"
                      THEN UpTo(rpreds[rk].n, rattempts)
                      ELSE OnlyIf(rpreds[rk].check, rerr)
            IN  /\ rlog' = Append(rlog, Evaluated(rattempts, rk, ok))
                /\ IF ok
                   THEN /\ rk' = rk + 1
                        /\ UNCHANGED <<rpc, rret>>
                   ELSE /\ rret' = rerr
                        /\ rpc' = "done"
                        /\ UNCHANGED rk
                /\ UNCHANGED <<rtimer, rwaits>>
    /\ UNCHANGED <<rpreds, rfirst, rexec, rattempts, rerr, rctx, rhist, rsel>>

\* The range over the predicates ended: every predicate approved, and the for
\* loop calls the step again.
RetryAllApproved ==
    /\ UNCHANGED rother
    /\ rpc = "pred"
    /\ rk > Len(rpreds)
    /\ rpc' = "call"
    /\ UNCHANGED <<rpreds, rfirst, rexec, rattempts, rk, rerr, rret, rctx, rtimer,
                   rwaits, rhist, rlog, rsel>>

\* What a select that returned leaves in the history: the attempt, which of
\* its channels were ready when it was resolved, and what the predicate
\* returned.
Selected(a, c, t, ok) == [a |-> a, ctx |-> c, timer |-> t, ok |-> ok]

\* case <-ctx.Done() returns true as well.
SelectReturnsFalseKeepsGoing(c, t) ==
    /\ rlog' = Append(rlog, Evaluated(rattempts, rk, FALSE))
    /\ rsel' = Append(rsel, Selected(rattempts, c, t, FALSE))
    /\ rk' = rk + 1
    /\ rpc' = "pred"
    /\ UNCHANGED rret

\* case <-ctx.Done(): return false.  The predicate rejects, and Retry returns
\* err.
SelectReturnsFalse(c, t) ==
    /\ rlog' = Append(rlog, Evaluated(rattempts, rk, FALSE))
    /\ rsel' = Append(rsel, Selected(rattempts, c, t, FALSE))
    /\ rret' = rerr
    /\ rpc' = "done"
    /\ UNCHANGED rk

\* case <-timer.C: return true.  The predicate approves, and the range over
\* the predicates goes on.
SelectReturnsTrue(c, t) ==
    /\ rlog' = Append(rlog, Evaluated(rattempts, rk, TRUE))
    /\ rsel' = Append(rsel, Selected(rattempts, c, t, TRUE))
    /\ rk' = rk + 1
    /\ rpc' = "pred"
    /\ UNCHANGED rret

\* The timer fires before the predicate has reached its select (its delay may
\* be zero): timer.C is ready when the select is entered.
TimerFires ==
    /\ UNCHANGED rother
    /\ rpc = "wait"
    /\ ~rtimer
    /\ rtimer' = TRUE
    /\ UNCHANGED <<rpc, rpreds, rfirst, rexec, rattempts, rk, rerr, rret, rctx,
                   rwaits, rhist, rlog, rsel>>

\* The caller's context is cancelled before the predicate has reached its
\* select.  Only the select of a backoff predicate looks at ctx, so a
\* cancellation at any earlier moment is the same as one at this moment.
RetryCtxCancelled ==
    /\ UNCHANGED rother
    /\ rpc = "wait"
    /\ ~rctx
    /\ rctx' = TRUE
    /\ UNCHANGED <<rpc, rpreds, rfirst, rexec, rattempts, rk, rerr, rret, rtimer,
                   rwaits, rhist, rlog, rsel>>

\* The select is entered with timer.C ready and takes that case.  When
\* ctx.Done() is ready too, the select chooses one of the two at random: this
\* action and BackoffCancelled are both enabled.
BackoffElapsed ==
    /\ UNCHANGED rother
    /\ rpc = "wait"
    /\ rtimer
    /\ SelectReturnsTrue(rctx, rtimer)
    /\ UNCHANGED <<rpreds, rfirst, rexec, rattempts, rerr, rctx, rtimer, rwaits,
                   rhist>>

\* The select is entered with ctx.Done() ready and takes that case.
BackoffCancelled ==
    /\ UNCHANGED rother
    /\ rpc = "wait"
    /\ rctx
    /\ SelectReturnsFalse(rctx, rtimer)
    /\ UNCHANGED <<rpreds, rfirst, rexec, rattempts, rerr, rctx, rtimer, rwaits,
                   rhist>>

\* The select is entered with neither channel ready: the goroutine blocks on
\* both.
BackoffBlocks ==
    /\ UNCHANGED rother
    /\ rpc = "wait"
    /\ ~rtimer
    /\ ~rctx
    /\ rpc' = "parked"
    /\ UNCHANGED <<rpreds, rfirst, rexec, rattempts, rk, rerr, rret, rctx, rtimer,
                   rwaits, rhist, rlog, rsel>>

\* The timer fires while the goroutine is blocked in the select: the send on
\* timer.C wakes it with that case, whatever happens to ctx afterwards.
BackoffWokenByTimer ==
    /\ UNCHANGED rother
    /\ rpc = "parked"
    /\ rtimer' = TRUE
    /\ SelectReturnsTrue(rctx, TRUE)
    /\ UNCHANGED <<rpreds, rfirst, rexec, rattempts, rerr, rctx, rwaits, rhist>>

\* The context is cancelled while the goroutine is blocked in the select: the
\* close of ctx.Done() wakes it with that case, whatever the timer does
\* afterwards.
BackoffWokenByCancel ==
    /\ UNCHANGED rother
    /\ rpc = "parked"
    /\ rctx' = TRUE
    /\ SelectReturnsFalse(TRUE, rtimer)
    /\ UNCHANGED <<rpreds, rfirst, rexec, rattempts, rerr, rtimer, rwaits, rhist>>

RetryNext ==
    \/ rpc = "idle" /\ \E first \in 0..MaxExecs, predicates \in PredicateChains :
           Retry(first, predicates)
    \/ RetryCallStep
    \/ RetryNextPredicate
    \/ RetryAllApproved
    \/ TimerFires
    \/ BackoffElapsed
    \/ BackoffCancelled
    \/ RetryCtxCancelled
    \/ BackoffBlocks
    \/ BackoffWokenByTimer
    \/ BackoffWokenByCancel

(***************************************************************************)
(* Properties of the retry engine.                                         *)
(***************************************************************************)
\* The evaluations of backoff predicates in the log.
BackoffEvaluations == {m \in DOMAIN rlog : IsBackoff(rpreds[rlog[m].k])}

\* C9: retry predicate chain: after a failed attempt the predicates are
\* evaluated from left to right; the step is executed again only after all of
\* them approved; the first one that rejects is the last one evaluated, no
\* wait of a later predicate is started, and Retry returns the error of the
\* attempt that just failed.  With OnlyIf first and its check rejecting the
\* first error, the step executes exactly once.
C9_PredicateChain ==
    rpc # "idle" =>
        /\ \A m \in DOMAIN rlog :
              /\ m = 1 => (rlog[m].a = 1 /\ rlog[m].k = 1)
              /\ m > 1 =>
                    /\ rlog[m - 1].ok
                    /\ IF rlog[m - 1].k < Len(rpreds)
                       THEN rlog[m].a = rlog[m - 1].a /\ rlog[m].k = rlog[m - 1].k + 1
                       ELSE rlog[m].a = rlog[m - 1].a + 1 /\ rlog[m].k = 1
              /\ rpreds[rlog[m].k].kind = "UpTo" =>
                    (rlog[m].ok <=> rlog[m].a < rpreds[rlog[m].k].n)
              /\ rpreds[rlog[m].k].kind = "OnlyIf" =>
                    (rlog[m].ok <=> Accepts(rpreds[rlog[m].k].check, rhist[rlog[m].a]))
        /\ \A a \in 1..(rexec - 1) : \A k \in DOMAIN rpreds :
              Evaluated(a, k, TRUE) \in Range(rlog)
        /\ (rlog # <<>> /\ ~rlog[Len(rlog)].ok) =>
              /\ rpc = "done"
              /\ rexec = rlog[Len(rlog)].a
              /\ rret = rhist[rexec]
              /\ rret.kind \in ErrorClasses
        /\ rwaits = Cardinality(BackoffEvaluations) + (IF rpc \in {"wait", "parked"} THEN 1 ELSE 0)
        /\ (rhist # <<>> /\ rpreds[1].kind = "OnlyIf"
                /\ ~Accepts(rpreds[1].check, rhist[1])) =>
              /\ rexec = 1
              /\ rwaits = 0
              /\ rpc = "done" => rret = rhist[1]

\* Retry(step, OnlyIf(isRetryable), FixedBackoff(d)): the first error was
\* retryable and the wait happened, the second was permanent: two executions,
\* one wait, and the second error returned.
C9_Witness ==
    /\ rpc = "done"
    /\ Len(rpreds) = 2
    /\ rpreds[1] = [kind |-> "OnlyIf", n |-> 0, check |-> "isRetryable"]
    /\ rpreds[2].kind = "FixedBackoff"
    /\ rexec = 2
    /\ rwaits = 1
    /\ rret = AttemptErr(2, "permanent")

\* Retry(step, UpTo(n)) with n >= 1 is running or has returned.
IsUpToOnly ==
    /\ rpc # "idle"
    /\ Len(rpreds) = 1
    /\ rpreds[1].kind = "UpTo"
    /\ rpreds[1].n >= 1

\* min(n, f), with f infinite when the step never succeeds.
ExpectedExecutions ==
    IF rfirst = 0 \/ rfirst > rpreds[1].n THEN rpreds[1].n ELSE rfirst

\* C10: retry termination: Retry(step, UpTo(n)) with n >= 1 always returns,
\* having executed the step exactly min(n, f) times, f being the number of
\* the first successful execution; it returns nil when one of the first n
\* executions succeeds and the error of the n-th execution otherwise.
C10_RetryTermination ==
    /\ [](IsUpToOnly =>
            /\ rexec <= ExpectedExecutions
            /\ rpc = "done" =>
                  /\ rexec = ExpectedExecutions
                  /\ IF rfirst \in 1..rpreds[1].n
                     THEN rret = NilErr
                     ELSE /\ rret = rhist[rpreds[1].n]
                          /\ rret.p = rpreds[1].n
                          /\ rret.kind \in ErrorClasses)
    /\ (IsUpToOnly ~> rpc = "done")

\* Retry(FailUntilCount(4), UpTo(3)) returned the third error after three
\* executions.
C10_Witness ==
    /\ rpc = "done"
    /\ rpreds = <<[kind |-> "UpTo", n |-> 3, check |-> "always"]>>
    /\ rfirst = 4
    /\ rexec = 3
    /\ rret.p = 3

\* Retry(FailUntilCount(3), UpTo(3)) succeeded at the third execution.
C10_WitnessSuccess ==
    /\ rpc = "done"
    /\ rpreds = <<[kind |-> "UpTo", n |-> 3, check |-> "always"]>>
    /\ rfirst = 3
    /\ rexec = 3
    /\ rret = NilErr

\* C11: cancellation during backoff: a select of FixedBackoff or
\* ExponentialBackoff that is resolved with the context cancelled and the
\* timer not fired returns false, and one resolved with the timer fired and
\* the context not cancelled returns true; after a select returned false Retry
\* has returned the error of the attempt that preceded the wait, which is not
\* nil, and the step is not executed again.
C11_BackoffCancellation ==
    /\ \A m \in DOMAIN rsel :
          /\ (rsel[m].ctx /\ ~rsel[m].timer) => ~rsel[m].ok
          /\ (rsel[m].timer /\ ~rsel[m].ctx) => rsel[m].ok
          /\ m < Len(rsel) => rsel[m].ok
    /\ (rsel # <<>> /\ ~rsel[Len(rsel)].ok) =>
          /\ rpc = "done"
          /\ rexec = rsel[Len(rsel)].a
          /\ rret = rhist[rexec]
          /\ rret # NilErr

\* Retry(step, UpTo(3), FixedBackoff(d)) with a step that never succeeds: the
\* context was cancelled while the first wait was blocked in its select, and
\* Retry returned the first error after one execution.
C11_Witness ==
    /\ rpc = "done"
    /\ Len(rpreds) = 2
    /\ rpreds[1] = [kind |-> "UpTo", n |-> 3, check |-> "always"]
    /\ rpreds[2].kind = "FixedBackoff"
    /\ rfirst = 0
    /\ rsel = <<Selected(1, TRUE, FALSE, FALSE)>>
    /\ rexec = 1
    /\ rret = rhist[1]

\* The same call with an ExponentialBackoff whose two waits elapsed without a
\* cancellation: the step has been executed three times.
C11_WitnessElapsed ==
    /\ rpc = "done"
    /\ Len(rpreds) = 2
    /\ rpreds[2].kind = "ExponentialBackoff"
    /\ rsel = <<Selected(1, FALSE, TRUE, TRUE), Selected(2, FALSE, TRUE, TRUE)>>
    /\ rexec = 3

\* C12: cancellation wins ties in backoff waits: a select that is resolved
\* with the context cancelled returns false, also when the timer has fired as
\* well; no wait during which the context was cancelled is passed.
C12_CancellationWinsTies ==
    \A m \in DOMAIN rsel : rsel[m].ctx => ~rsel[m].ok

(***************************************************************************)
(* The delay of an ExponentialBackoff predicate.  A time.Duration is an    *)
(* int64 count of nanoseconds; it is kept here as its 64 bits in two's     *)
(* complement, bit 0 the lowest, so that a product wraps as it does in the *)
(* program.                                                                *)
(***************************************************************************)
Width == 64

Bits == 0..(Width - 1)

Millisecond == 1000000

\* The Duration of n nanoseconds, for 0 <= n < 2^31.
FromNat(n) == [i \in Bits |-> IF i < 31 THEN (n \div (2 ^ i)) % 2 ELSE 0]

RECURSIVE BitsValue(_, _)
BitsValue(d, i) == IF i < 0 THEN 0 ELSE d[i] * (2 ^ i) + BitsValue(d, i - 1)

\* The nanoseconds of a Duration in 0 .. 2^31 - 1.
ToNat(d) == BitsValue(d, 30)

IsZero(d) == \A i \in Bits : d[i] = 0

IsNegative(d) == d[Width - 1] = 1

\* a < b on int64.
Less(a, b) ==
    LET diff == {i \in Bits : a[i] # b[i]}
        high == CHOOSE i \in diff : \A j \in diff : j <= i
    IN  /\ diff # {}
        /\ IF high = Width - 1 THEN a[high] = 1 ELSE a[high] = 0

\* base * time.Duration(1<<shift): the product of an int64 with 2^shift keeps
\* the low 64 bits.
ShiftLeft(d, shift) == [i \in Bits |-> IF i >= shift THEN d[i - shift] ELSE 0]

\* if shift > 62 { shift = 62 }
MaxShift == 62

\* cfg.multiplier as a fraction: the default 2.0, and WithMultiplier(1.5) and
\* WithMultiplier(3.0).
Multipliers ==
    {[num |-> 2, den |-> 1], [num |-> 3, den |-> 2], [num |-> 3, den |-> 1]}

DefaultMultiplier == [num |-> 2, den |-> 1]

\* The bases of the model, in nanoseconds.
Bases == {1, 3, 4, 50 * Millisecond, 100 * Millisecond}

\* The attempts arguments of the model: Retry passes 1, 2, ...; a direct call
\* can pass anything.
AttemptArgs == (-1)..MaxAttemptArg

\* time.Duration(float64(x) * multiplier): the product is exact for the values
\* of the model, and the conversion drops the fraction.  -1 stands for a
\* product beyond MaxNanos.
Scaled(x, m) ==
    IF x < 0 \/ x > MaxNanos \div m.num THEN -1 ELSE (x * m.num) \div m.den

\* for i := 1; i < attempts; i++ { base = time.Duration(float64(base) * multiplier) }
RECURSIVE Power(_, _, _)
Power(x, m, k) ==
    IF k = 0 \/ x = -1 THEN x
    ELSE LET y == Scaled(x, m) IN IF y = -1 THEN -1 ELSE Power(y, m, k - 1)

BackoffInit ==
    /\ bpc = "idle"
    /\ bbase0 = FromNat(0)
    /\ bmult = DefaultMultiplier
    /\ bbase = FromNat(0)
    /\ bcount = 0
    /\ battempts = 0
    /\ bdelay = FromNat(0)
    /\ bseq = 0

\* ExponentialBackoff(base, WithMultiplier(m)) returns the predicate: a closure
\* over base and cfg.
ExponentialBackoff(base, m) ==
    /\ UNCHANGED bother
    /\ bpc = "idle"
    /\ bpc' = "ready"
    /\ bbase0' = FromNat(base)
    /\ bbase' = FromNat(base)
    /\ bmult' = m
    /\ UNCHANGED <<bcount, battempts, bdelay, bseq>>

\* if attempts < 1 { attempts = 1 }
ClampedAttempts(attempts) == IF attempts < 1 THEN 1 ELSE attempts

\* shift := uint(attempts) - 1; if shift > 62 { shift = 62 }
ShiftOf(attempts) ==
    IF ClampedAttempts(attempts) - 1 > MaxShift
    THEN MaxShift
    ELSE ClampedAttempts(attempts) - 1

\* delay = base * time.Duration(1<<shift); if delay.Seconds() == 0 { delay = base }
\* Seconds() is zero for the zero Duration only.
ShiftedDelay(base, attempts) ==
    IF IsZero(ShiftLeft(base, ShiftOf(attempts)))
    THEN base
    ELSE ShiftLeft(base, ShiftOf(attempts))

\* The predicate is called with attempts and computes its delay.  With the
\* default multiplier base is only read; with another one the loop assigns to
\* the captured base, which keeps the value for the next call.  A call whose
\* power goes beyond MaxNanos is outside the model: below it the overflow
\* branch of the loop (base zero or negative) is never taken.
BackoffDelay(attempts) ==
    /\ UNCHANGED bother
    /\ bpc = "ready"
    /\ bcount < MaxCalls
    /\ IF bmult = DefaultMultiplier
       THEN /\ bdelay' = ShiftedDelay(bbase, attempts)
            /\ UNCHANGED bbase
       ELSE /\ Power(ToNat(bbase), bmult, ClampedAttempts(attempts) - 1) # -1
            /\ bbase' = FromNat(Power(ToNat(bbase), bmult, ClampedAttempts(attempts) - 1))
            /\ bdelay' = bbase'
    /\ bcount' = bcount + 1
    /\ battempts' = attempts
    /\ bseq' = IF bseq >= 0 /\ attempts = bseq + 1 THEN attempts ELSE -1
    /\ UNCHANGED <<bpc, bbase0, bmult>>

BackoffNext ==
    \/ bpc = "idle" /\ \E base \in Bases, m \in Multipliers : ExponentialBackoff(base, m)
    \/ bpc = "ready" /\ \E attempts \in AttemptArgs : BackoffDelay(attempts)

(***************************************************************************)
(* Properties of the delay.                                                *)
(***************************************************************************)
\* base * multiplier^(N-1) in nanoseconds, the fraction dropped at each factor.
RECURSIVE Nominal(_, _, _)
Nominal(base, m, N) ==
    IF N <= 1 THEN base ELSE (Nominal(base, m, N - 1) * m.num) \div m.den

\* C13: exponential backoff growth: in the first Retry run of an
\* ExponentialBackoff(base) predicate (calls with attempts 1, 2, ..., N) the
\* delay of the N-th call, before jitter and cap, is base * multiplier^(N-1),
\* for the default multiplier and for a custom one.
C13_ExponentialGrowth ==
    (bpc = "ready" /\ bseq >= 1) =>
        bdelay = FromNat(Nominal(ToNat(bbase0), bmult, bseq))

\* C14: edge policy of ExponentialBackoff: attempts below 1 give the delay of
\* attempt 1, and the delay is never negative and never smaller than the base
\* the predicate was made with, whatever the attempts argument.
C14_EdgePolicy ==
    (bpc = "ready" /\ bcount > 0) =>
        /\ ~IsNegative(bdelay)
        /\ ~Less(bdelay, bbase0)
        /\ battempts < 1 => bdelay = bbase

(***************************************************************************)
(* Names and tracing.  A workflow is a tree: steps at the leaves, and      *)
(* above them Named (in its four variants), Traced, Do and InParallel.  A  *)
(* node is addressed by its path from the root, the sequence of child      *)
(* indices.  Each step reads Names(ctx), writes to the slice it got, reads *)
(* Names(ctx) again and returns its outcome.                               *)
(***************************************************************************)
StepNode(out) ==
    [op |-> "Step", variant |-> "", name |-> "", out |-> out, stream |-> "none",
     kids |-> <<>>]

NamedNode(variant, name, w) ==
    [op |-> "Named", variant |-> variant, name |-> name, out |-> "",
     stream |-> "none", kids |-> <<w>>]

TracedNode(stream, w) ==
    [op |-> "Traced", variant |-> "", name |-> "", out |-> "", stream |-> stream,
     kids |-> <<w>>]

DoNode(ws) ==
    [op |-> "Do", variant |-> "", name |-> "", out |-> "", stream |-> "none",
     kids |-> ws]

InParallelNode(ws) ==
    [op |-> "InParallel", variant |-> "", name |-> "", out |-> "",
     stream |-> "none", kids |-> ws]

NoWorkflow == StepNode("none")

\* What a step returns: nil, errors.New("boom"), or errors.New("").
Outcomes == {"ok", "fail", "failEmpty"}

NameSet == {"a", "b"}

Variants == {"Named", "NamedExtract", "NamedTransform", "NamedConsume"}

\* WithStreamTo is not given, or given a writer that works, or one that fails.
Streams == {"none", "ok", "failing"}

Leaves == {StepNode(o) : o \in Outcomes}

NamedOver(V, S) == {NamedNode(v, n, w) : v \in V, n \in NameSet, w \in S}

\* One variant that returns a NamedError and one that returns a *NamedError.
OuterVariants == {"Named", "NamedExtract"}

\* Up to k Named* scopes around a member of S: any variant next to the member,
\* and the outer variants around a scope.
RECURSIVE Nest(_, _)
Nest(k, S) ==
    IF k = 0 THEN S
    ELSE S \cup NamedOver(Variants, S)
           \cup NamedOver(OuterVariants, Nest(k - 1, S) \ S)

\* The children of a Do or an InParallel of the model: a step, or a Named step.
Siblings == Leaves \cup NamedOver({"Named"}, Leaves)

Pairs ==
    {DoNode(<<x, y>>) : x, y \in Siblings}
        \cup {InParallelNode(<<x, y>>) : x, y \in Siblings}

\* A Traced inside a Named scope.
InnerTraced ==
    {NamedNode("Named", n, TracedNode("none", w)) :
        n \in NameSet, w \in Nest(1, Leaves)}

\* A Do whose first step is a Traced inside a Named scope and whose second
\* step is a Named step.
TracedThenNamed ==
    {DoNode(<<NamedNode("Named", n, TracedNode("none", x)), y>>) :
        n \in NameSet, x, y \in NamedOver({"Named"}, Leaves)}

Bodies ==
    Nest(MaxNest, Leaves) \cup Pairs \cup NamedOver({"Named"}, Pairs) \cup InnerTraced
        \cup TracedThenNamed

Workflows == Bodies \cup {TracedNode(s, w) : s \in Streams, w \in Bodies}

RECURSIVE Paths(_)
Paths(w) ==
    {<<>>} \cup UNION {{<<i>> \o q : q \in Paths(w.kids[i])} : i \in DOMAIN w.kids}

RECURSIVE NodeAt(_, _)
NodeAt(w, p) == IF p = <<>> THEN w ELSE NodeAt(w.kids[Head(p)], Tail(p))

Node(p) == NodeAt(wf, p)

Parent(p) == SubSeq(p, 1, Len(p) - 1)

Child(p, i) == Append(p, i)

WPaths == DOMAIN wst

\* A []string is a reference to its array: nil, the array addName allocated
\* at a Named node, or the array Names allocated for a step.
NilRef == <<"nil", <<>>>>

NamesRef(p) == <<"names", p>>

CopyRef(p) == <<"copy", p>>

Deref(ref) ==
    CASE ref[1] = "nil" -> <<>>
      [] ref[1] = "names" -> warr[ref[2]]
      [] ref[1] = "copy" -> wcopy[ref[2]]

\* A context without a flowCtx.
EmptyCtx == [names |-> NilRef, trace |-> 0]

WorkErr(p, out) ==
    [kind |-> "errors.New", at |-> p, msg |-> IF out = "fail" THEN "boom" ELSE ""]

\* NamedError{Name: name, Err: err}, or a pointer to one.
NamedError(name, err, ptr) ==
    [kind |-> "NamedError", Name |-> name, Err |-> err, ptr |-> ptr]

\* NamedTransform and NamedExtract return &NamedError{...}, Named and
\* NamedConsume return NamedError{...}.
ReturnsPointer(variant) == variant \in {"NamedTransform", "NamedExtract"}

\* err.Error(), as the sequence of its pieces; "" is the empty sequence.
RECURSIVE ErrorText(_)
ErrorText(err) ==
    CASE err.kind = "NamedError" -> <<err.Name, ": ">> \o ErrorText(err.Err)
      [] err.kind = "errors.New" -> IF err.msg = "" THEN <<>> ELSE <<err.msg>>
      [] OTHER -> <<>>

\* errors.As(err, &namedErr) with var namedErr NamedError: the first error of
\* the chain whose type is NamedError; a *NamedError is not assignable to it
\* and is only unwrapped.  NilErr when there is none.
RECURSIVE AsNamedError(_)
AsNamedError(err) ==
    IF err.kind # "NamedError" THEN NilErr
    ELSE IF ~err.ptr THEN err
    ELSE AsNamedError(err.Err)

\* for { if errors.As(recordErr, &namedErr) && namedErr.Err != nil {
\*     recordErr = namedErr.Err } else { break } }
RECURSIVE RecordErr(_)
RecordErr(err) ==
    IF AsNamedError(err) # NilErr /\ AsNamedError(err).Err # NilErr
    THEN RecordErr(AsNamedError(err).Err)
    ELSE err

NewTrace(stream) ==
    [Events |-> <<>>, TotalSteps |-> 0, TotalErrors |-> 0, stream |-> stream,
     lines |-> <<>>, order |-> <<>>, returned |-> FALSE]

NamesInit ==
    /\ wpc = "idle"
    /\ wf = NoWorkflow
    /\ wst = [p \in {} |-> "new"]
    /\ wctx = [p \in {} |-> EmptyCtx]
    /\ wret = [p \in {} |-> NilErr]
    /\ widx = [p \in {} |-> 0]
    /\ wcur = [p \in {} |-> 0]
    /\ wgerr = [p \in {} |-> NilErr]
    /\ wtid = [p \in {} |-> 0]
    /\ warr = [p \in {} |-> <<>>]
    /\ wcopy = [p \in {} |-> <<>>]
    /\ wseen = [p \in {} |-> <<>>]
    /\ traces = <<>>

\* The workflow w is called with a context that has no flowCtx.
Start(w) ==
    /\ UNCHANGED wother
    /\ wpc = "idle"
    /\ wpc' = "running"
    /\ wf' = w
    /\ wst' = [p \in Paths(w) |-> IF p = <<>> THEN "called" ELSE "new"]
    /\ wctx' = [p \in Paths(w) |-> EmptyCtx]
    /\ wret' = [p \in Paths(w) |-> NilErr]
    /\ widx' = [p \in Paths(w) |-> 0]
    /\ wcur' = [p \in Paths(w) |-> 0]
    /\ wgerr' = [p \in Paths(w) |-> NilErr]
    /\ wtid' = [p \in Paths(w) |-> 0]
    /\ warr' = [p \in Paths(w) |-> <<>>]
    /\ wcopy' = [p \in Paths(w) |-> <<>>]
    /\ wseen' = [p \in Paths(w) |-> <<>>]
    /\ UNCHANGED traces

\* Node p returns err to its caller.  A unit of an InParallel hands the error
\* to the group, which keeps the first one.
Return(p, err) ==
    /\ wst' = [wst EXCEPT ![p] = "returned"]
    /\ wret' = [wret EXCEPT ![p] = err]
    /\ wgerr' = IF p # <<>> /\ Node(Parent(p)).op = "InParallel"
                      /\ wgerr[Parent(p)] = NilErr
                THEN [wgerr EXCEPT ![Parent(p)] = err]
                ELSE wgerr
    /\ wpc' = IF p = <<>> THEN "done" ELSE wpc

\* Node p calls its i-th callee with ctx.
Call(p, i, ctx) ==
    /\ wst' = [wst EXCEPT ![p] = "inner", ![Child(p, i)] = "called"]
    /\ wctx' = [wctx EXCEPT ![Child(p, i)] = ctx]

\* Names returns the names of the context itself.
NamesAliased(ctx, p) == ctx.names

\* Names(ctx): nil without a flowCtx or without names, and otherwise
\* append([]string{}, f.names...), a new array for the step at p.
Names(ctx, p) == IF Deref(ctx.names) = <<>> THEN NilRef ELSE CopyRef(p)

\* names1[0] = "modified"
Modified(names) == [names EXCEPT ![1] = "modified"]

\* A step is called: names1 := Names(ctx), and, when there is a name,
\* names1[0] = "modified".
StepRun(p) ==
    /\ UNCHANGED wother
    /\ wst[p] = "called"
    /\ Node(p).op = "Step"
    /\ wst' = [wst EXCEPT ![p] = "inner"]
    /\ wseen' = [wseen EXCEPT ![p] = <<Deref(wctx[p].names)>>]
    /\ CASE Names(wctx[p], p)[1] = "nil" -> UNCHANGED <<warr, wcopy>>
         [] Names(wctx[p], p)[1] = "copy" ->
               /\ wcopy' = [wcopy EXCEPT ![p] = Modified(Deref(wctx[p].names))]
               /\ UNCHANGED warr
         [] Names(wctx[p], p)[1] = "names" ->
               /\ warr' = [warr EXCEPT ![Names(wctx[p], p)[2]] = Modified(@)]
               /\ UNCHANGED wcopy
    /\ UNCHANGED <<wpc, wf, wctx, wret, widx, wcur, wgerr, wtid, traces>>

\* The step goes on: names2 := Names(ctx), and it returns its outcome.
StepReturn(p) ==
    /\ UNCHANGED wother
    /\ wst[p] = "inner"
    /\ Node(p).op = "Step"
    /\ wseen' = [wseen EXCEPT ![p] = Append(@, Deref(wctx[p].names))]
    /\ Return(p, IF Node(p).out = "ok" THEN NilErr ELSE WorkErr(p, Node(p).out))
    /\ UNCHANGED <<wf, wctx, widx, wcur, wtid, warr, wcopy, traces>>

\* addName: f2 := newFlowCtx(ctx, f);
\* f2.names = append(append([]string{}, f2.names...), name): the names of the
\* new context are in a new array.
Extended(ctx, p) == NamesRef(p)

\* The event is appended, and TotalSteps is left as it was.
NewEventUncounted(tr, names) ==
    [tr EXCEPT !.Events = Append(@, [Names |-> names, Error |-> <<>>,
                                      finished |-> FALSE])]

\* The index is that of the last event there is.
EventIndexOfLast(tr) == IF tr.Events = <<>> THEN 1 ELSE Len(tr.Events)

\* idx := len(t.result.Events), read under the mutex right before the append:
\* the place of the new event (counted from 1 here).
EventIndex(tr) == Len(tr.Events) + 1

\* trace.newEvent(names): under the mutex, the event is appended with the
\* slice it was given, and TotalSteps is incremented.
NewEvent(tr, names) ==
    [tr EXCEPT !.Events = Append(@, [Names |-> names, Error |-> <<>>,
                                      finished |-> FALSE]),
               !.TotalSteps = @ + 1]

\* The line is put before the lines already written.
StreamedFirst(tr, line) ==
    IF tr.stream = "ok" THEN <<line>> \o tr.lines ELSE tr.lines

\* if t.streamTo != nil { _ = t.encoder.Encode(event) }: a writer that works
\* gets the line after those it has; the error of one that fails is dropped.
Streamed(tr, line) ==
    IF tr.stream = "ok" THEN Append(tr.lines, line) ELSE tr.lines

\* The event is finished, and its Error is left as it was.
RecordFinishWithoutError(tr, idx, err) ==
    [tr EXCEPT !.Events[idx].finished = TRUE,
               !.TotalErrors = IF err = NilErr THEN @ ELSE @ + 1]

\* trace.recordFinish(idx, err): under the mutex, the event at idx gets its
\* duration and, for a non-nil err, its Error and a count in TotalErrors; the
\* event is then encoded to the stream.  order keeps the indices of the
\* events in the order of these calls.
RecordFinish(tr, idx, err) ==
    [tr EXCEPT !.Events[idx].finished = TRUE,
               !.Events[idx].Error = IF err = NilErr THEN @
                                     ELSE ErrorText(RecordErr(err)),
               !.TotalErrors = IF err = NilErr THEN @ ELSE @ + 1,
               !.order = Append(@, idx),
               !.lines = Streamed(tr,
                             [step_names |-> Deref(tr.Events[idx].Names),
                              error |-> IF err = NilErr THEN <<>>
                                        ELSE ErrorText(RecordErr(err))])]

\* Named(name, step) is called: addName, then newEvent when the context has a
\* trace, then step(ctx, t) with the new context.
NamedCall(p) ==
    /\ UNCHANGED wother
    /\ wst[p] = "called"
    /\ Node(p).op = "Named"
    /\ warr' = [warr EXCEPT ![Extended(wctx[p], p)[2]] =
                    Append(Deref(wctx[p].names), Node(p).name)]
    /\ Call(p, 1, [names |-> Extended(wctx[p], p), trace |-> wctx[p].trace])
    /\ IF wctx[p].trace # 0
       THEN /\ widx' = [widx EXCEPT ![p] = EventIndex(traces[wctx[p].trace])]
            /\ traces' = [traces EXCEPT ![wctx[p].trace] =
                              NewEvent(@, Extended(wctx[p], p))]
       ELSE UNCHANGED <<widx, traces>>
    /\ UNCHANGED <<wpc, wf, wret, wcur, wgerr, wtid, wcopy, wseen>>

\* The error is returned as it came.
NotWrapped(p, err) == err

\* if err != nil { return NamedError{Name: name, Err: err} }; return nil
Wrapped(p, err) ==
    IF err = NilErr THEN NilErr
    ELSE NamedError(Node(p).name, err, ReturnsPointer(Node(p).variant))

\* step(ctx, t) returned: the deferred recordFinish runs when there is a
\* trace, and the error is wrapped.
NamedReturn(p) ==
    /\ UNCHANGED wother
    /\ wst[p] = "inner"
    /\ Node(p).op = "Named"
    /\ wst[Child(p, 1)] = "returned"
    /\ IF wctx[p].trace # 0
       THEN traces' = [traces EXCEPT ![wctx[p].trace] =
                           RecordFinish(@, widx[p], wret[Child(p, 1)])]
       ELSE UNCHANGED traces
    /\ Return(p, Wrapped(p, wret[Child(p, 1)]))
    /\ UNCHANGED <<wf, wctx, widx, wcur, wtid, warr, wcopy, wseen>>

\* The new context keeps the trace of the context it was made from.
TracedContextOfOuter(ctx, tid) ==
    [names |-> ctx.names, trace |-> IF ctx.trace # 0 THEN ctx.trace ELSE tid]

\* f2 := newFlowCtx(ctx, f); f2.trace = tr; ctx = f2: the new context has the
\* names of the one it was made from, and the new trace.
TracedContext(ctx, tid) == [names |-> ctx.names, trace |-> tid]

\* Traced(step, opts...) is called: a new Trace and a new context that holds
\* it and inherits the names.
TracedCall(p) ==
    /\ UNCHANGED wother
    /\ wst[p] = "called"
    /\ Node(p).op = "Traced"
    /\ traces' = Append(traces, NewTrace(Node(p).stream))
    /\ wtid' = [wtid EXCEPT ![p] = Len(traces) + 1]
    /\ Call(p, 1, TracedContext(wctx[p], Len(traces) + 1))
    /\ UNCHANGED <<wpc, wf, wret, widx, wcur, wgerr, warr, wcopy, wseen>>

\* A stream that fails makes Traced fail.
TracedErrOrStreamErr(p, err) ==
    IF Node(p).stream = "failing" /\ traces[wtid[p]].Events # <<>>
    THEN [kind |-> "errors.New", at |-> p, msg |-> "write failed"]
    ELSE err

\* err = step(ctx, t); return result, err
TracedErr(p, err) == err

\* step(ctx, t) returned: result.Duration is set, the stream flushed, and
\* result and err are returned.
TracedReturn(p) ==
    /\ UNCHANGED wother
    /\ wst[p] = "inner"
    /\ Node(p).op = "Traced"
    /\ wst[Child(p, 1)] = "returned"
    /\ traces' = [traces EXCEPT ![wtid[p]].returned = TRUE]
    /\ Return(p, TracedErr(p, wret[Child(p, 1)]))
    /\ UNCHANGED <<wf, wctx, widx, wcur, wtid, warr, wcopy, wseen>>

\* The i-th step is called with the context its predecessor's callee got.
ChildContextOfSibling(p, i) ==
    IF i > 1 /\ Node(Child(p, i - 1)).op = "Named"
    THEN wctx[Child(Child(p, i - 1), 1)]
    ELSE wctx[p]

\* step(ctx, t) in DoWith, step(subCtx, t) in InParallelWith: every step gets
\* the context of the combinator (subCtx is derived from it and has its
\* flowCtx).
ChildContext(p, i) == wctx[p]

\* Do(steps...) is called: the first step is called.
DoCall(p) ==
    /\ UNCHANGED wother
    /\ wst[p] = "called"
    /\ Node(p).op = "Do"
    /\ wcur' = [wcur EXCEPT ![p] = 1]
    /\ Call(p, 1, ChildContext(p, 1))
    /\ UNCHANGED <<wpc, wf, wret, widx, wgerr, wtid, warr, wcopy, wseen, traces>>

\* A step returned nil and is not the last: the next step is called.
DoNext(p) ==
    /\ UNCHANGED wother
    /\ wst[p] = "inner"
    /\ Node(p).op = "Do"
    /\ wst[Child(p, wcur[p])] = "returned"
    /\ wret[Child(p, wcur[p])] = NilErr
    /\ wcur[p] < Len(Node(p).kids)
    /\ wcur' = [wcur EXCEPT ![p] = @ + 1]
    /\ Call(p, wcur[p] + 1, ChildContext(p, wcur[p] + 1))
    /\ UNCHANGED <<wpc, wf, wret, widx, wgerr, wtid, warr, wcopy, wseen, traces>>

\* A step returned an error, or the last step returned: Do returns.
DoReturn(p) ==
    /\ UNCHANGED wother
    /\ wst[p] = "inner"
    /\ Node(p).op = "Do"
    /\ wst[Child(p, wcur[p])] = "returned"
    /\ wret[Child(p, wcur[p])] # NilErr \/ wcur[p] = Len(Node(p).kids)
    /\ Return(p, wret[Child(p, wcur[p])])
    /\ UNCHANGED <<wf, wctx, widx, wcur, wtid, warr, wcopy, wseen, traces>>

\* InParallel(Steps(steps...)) is called: group.Go starts every step in a
\* goroutine of its own.
InParallelCall(p) ==
    /\ UNCHANGED wother
    /\ wst[p] = "called"
    /\ Node(p).op = "InParallel"
    /\ wst' = [q \in WPaths |->
                  IF q = p THEN "inner"
                  ELSE IF Parent(q) = p /\ q # <<>> THEN "called"
                  ELSE wst[q]]
    /\ wctx' = [q \in WPaths |->
                   IF Parent(q) = p /\ q # <<>>
                   THEN ChildContext(p, q[Len(q)])
                   ELSE wctx[q]]
    /\ UNCHANGED <<wpc, wf, wret, widx, wcur, wgerr, wtid, warr, wcopy, wseen, traces>>

\* group.Wait() returned: every step has returned, and the result is the
\* first error the group got.
InParallelReturn(p) ==
    /\ UNCHANGED wother
    /\ wst[p] = "inner"
    /\ Node(p).op = "InParallel"
    /\ \A i \in DOMAIN Node(p).kids : wst[Child(p, i)] = "returned"
    /\ Return(p, wgerr[p])
    /\ UNCHANGED <<wf, wctx, widx, wcur, wtid, warr, wcopy, wseen, traces>>

NamesNext ==
    \/ wpc = "idle" /\ \E w \in Workflows : Start(w)
    \/ wpc = "running" /\ \E p \in WPaths : StepRun(p)
    \/ wpc = "running" /\ \E p \in WPaths : StepReturn(p)
    \/ wpc = "running" /\ \E p \in WPaths : NamedCall(p)
    \/ wpc = "running" /\ \E p \in WPaths : NamedReturn(p)
    \/ wpc = "running" /\ \E p \in WPaths : TracedCall(p)
    \/ wpc = "running" /\ \E p \in WPaths : TracedReturn(p)
    \/ wpc = "running" /\ \E p \in WPaths : DoCall(p)
    \/ wpc = "running" /\ \E p \in WPaths : DoNext(p)
    \/ wpc = "running" /\ \E p \in WPaths : DoReturn(p)
    \/ wpc = "running" /\ \E p \in WPaths : InParallelCall(p)
    \/ wpc = "running" /\ \E p \in WPaths : InParallelReturn(p)

\* The names of the Named scopes that enclose node p, outermost first.
RECURSIVE ScopeNames(_)
ScopeNames(p) ==
    IF p = <<>> THEN <<>>
    ELSE ScopeNames(Parent(p))
             \o (IF Node(Parent(p)).op = "Named" THEN <<Node(Parent(p)).name>>
                 ELSE <<>>)

HasRun(p) == Node(p).op = "Step" /\ wst[p] \in {"inner", "returned"}

\* C15: inside nested Named scopes the path that Names returns is exactly the
\* names of the enclosing scopes, outermost first, and nil when no Named
\* encloses the call; after the step wrote to the slice it got, a second
\* Names call on the same context returns the same path again.
C15_NamePathNesting ==
    \A p \in WPaths :
        HasRun(p) =>
            /\ wseen[p][1] = ScopeNames(p)
            /\ ScopeNames(p) = <<>> => Names(wctx[p], p) = NilRef
            /\ wst[p] = "returned" => wseen[p][2] = ScopeNames(p)

\* Named("a", Named("b", Named("a", probe))): the probe got [a, b, a], wrote
\* "modified" to the slice it got, and read [a, b, a] again.
C15_Witness ==
    /\ wpc = "done"
    /\ wf = NamedNode("Named", "a", NamedNode("Named", "b",
                NamedNode("Named", "a", StepNode("ok"))))
    /\ wseen[<<1, 1, 1>>] = <<<<"a", "b", "a">>, <<"a", "b", "a">>>>
    /\ wcopy[<<1, 1, 1>>] = <<"modified", "b", "a">>

\* C16: the names of a context never change: whatever has run since, every
\* node that was called has in its context exactly the names of the scopes
\* that enclose it, a Named scope gives its callee these names plus its own,
\* and every step saw exactly the names of its enclosing scopes: a later
\* serial sibling not the name of an earlier one, a parallel branch not the
\* name of another branch.
C16_NameStackScoping ==
    \A p \in WPaths :
        /\ wst[p] # "new" => Deref(wctx[p].names) = ScopeNames(p)
        /\ (Node(p).op = "Named" /\ wst[p] \in {"inner", "returned"}) =>
               Deref(wctx[Child(p, 1)].names) = Append(ScopeNames(p), Node(p).name)
        /\ HasRun(p) => \A k \in DOMAIN wseen[p] : wseen[p][k] = ScopeNames(p)

\* Under Named("a", ...), the branches Named("a", probe) and Named("b", probe)
\* of an InParallel: the second branch ran to its end before the first
\* entered its scope, and they saw [a, a] and [a, b].
C16_Witness ==
    /\ wf = NamedNode("Named", "a", InParallelNode(
                <<NamedNode("Named", "a", StepNode("ok")),
                  NamedNode("Named", "b", StepNode("ok"))>>))
    /\ wst[<<1, 2>>] = "returned"
    /\ wst[<<1, 1>>] = "inner"
    /\ wst[<<1, 1, 1>>] = "returned"
    /\ wseen[<<1, 1, 1>>] = <<<<"a", "a">>, <<"a", "a">>>>
    /\ wseen[<<1, 2, 1>>] = <<<<"a", "b">>, <<"a", "b">>>>

\* Do(Named("a", probe), probe): the second probe runs after the scope "a"
\* was left, and sees no name.
C16_WitnessSerial ==
    /\ wpc = "done"
    /\ wf = DoNode(<<NamedNode("Named", "a", StepNode("ok")), StepNode("ok")>>)
    /\ wseen[<<1, 1>>] = <<<<"a">>, <<"a">>>>
    /\ wseen[<<2>>] = <<<<>>, <<>>>>


\* The names of the NamedError layers of err, outermost first.
RECURSIVE WrapperNames(_)
WrapperNames(err) ==
    IF err.kind = "NamedError" THEN <<err.Name>> \o WrapperNames(err.Err) ELSE <<>>

\* What is left when Unwrap has gone through every NamedError layer.
RECURSIVE Cause(_)
Cause(err) == IF err.kind = "NamedError" THEN Cause(err.Err) ELSE err

\* C17: a Named* step whose callable returned nil returns nil; one whose
\* callable failed returns a NamedError with its own name around exactly the
\* error of the callable.  So the error a node returns has one layer for each
\* scope between the node and the step that failed, the outermost scope
\* outermost, around the error of that step.
C17_NamedErrorAttribution ==
    \A p \in WPaths :
        wst[p] = "returned" =>
            /\ Node(p).op = "Named" =>
                  IF wret[Child(p, 1)] = NilErr THEN wret[p] = NilErr
                  ELSE /\ wret[p].kind = "NamedError"
                       /\ wret[p].Name = Node(p).name
                       /\ wret[p].Err = wret[Child(p, 1)]
            /\ wret[p] # NilErr =>
                  /\ Cause(wret[p]).kind = "errors.New"
                  /\ IsPrefix(p, Cause(wret[p]).at)
                  /\ Cause(wret[p]) = WorkErr(Cause(wret[p]).at,
                                              Node(Cause(wret[p]).at).out)
                  /\ ScopeNames(p) \o WrapperNames(wret[p])
                         = ScopeNames(Cause(wret[p]).at)

\* Named("a", NamedExtract("b", NamedConsume("a", step))) with a step that
\* fails: three layers a, b, a around the error of the step.
C17_Witness ==
    /\ wpc = "done"
    /\ wf = NamedNode("Named", "a", NamedNode("NamedExtract", "b",
                NamedNode("NamedConsume", "a", StepNode("fail"))))
    /\ WrapperNames(wret[<<>>]) = <<"a", "b", "a">>
    /\ Cause(wret[<<>>]) = WorkErr(<<1, 1, 1>>, "fail")
    /\ ErrorText(wret[<<>>]) = <<"a", ": ", "b", ": ", "a", ": ", "boom">>


\* The trace of the nearest Traced that encloses node p, 0 when there is none.
RECURSIVE TraceOf(_)
TraceOf(p) ==
    IF p = <<>> THEN 0
    ELSE IF Node(Parent(p)).op = "Traced" THEN wtid[Parent(p)]
    ELSE TraceOf(Parent(p))

\* The Named* steps under trace t whose execution has begun.
Executed(t) ==
    {p \in WPaths :
        Node(p).op = "Named" /\ wst[p] \in {"inner", "returned"} /\ TraceOf(p) = t}

\* err and the errors reached from it by Unwrap.
RECURSIVE Chain(_)
Chain(err) ==
    IF err.kind = "NamedError" THEN {err} \cup Chain(err.Err) ELSE {err}

\* C18: the events of a trace are, one for one, the Named* steps under it whose
\* execution has begun, whatever else ran: the event of a step is there as
\* soon as its callable is called, has as Names the names of the enclosing
\* scopes plus the step's own, stands before the events of the steps below
\* it, is unfinished and without error while the callable runs, and when the
\* step has returned it is finished and has as Error the text of the error the
\* callable returned, or of an error wrapped in it; no error when it returned
\* nil.
C18_EventRecording ==
    \A t \in DOMAIN traces :
        /\ Len(traces[t].Events) = Cardinality(Executed(t))
        /\ \A p \in Executed(t) :
              /\ widx[p] \in DOMAIN traces[t].Events
              /\ Deref(traces[t].Events[widx[p]].Names)
                     = Append(ScopeNames(p), Node(p).name)
              /\ traces[t].Events[widx[p]].finished <=> wst[p] = "returned"
              /\ wst[p] = "inner" => traces[t].Events[widx[p]].Error = <<>>
              /\ wst[p] = "returned" =>
                    IF wret[Child(p, 1)] = NilErr
                    THEN traces[t].Events[widx[p]].Error = <<>>
                    ELSE \E e \in Chain(wret[Child(p, 1)]) :
                            traces[t].Events[widx[p]].Error = ErrorText(e)
        /\ \A p, q \in Executed(t) :
              /\ p # q => widx[p] # widx[q]
              /\ (p # q /\ IsPrefix(p, q)) => widx[p] < widx[q]

\* Traced(Named("a", InParallel(Named("a", step), probe))) where the step
\* fails: two events, [a] and then [a, a], both finished with the error of
\* the step; the probe left no event.
C18_Witness ==
    /\ wpc = "done"
    /\ wf = TracedNode("none", NamedNode("Named", "a", InParallelNode(
                <<NamedNode("Named", "a", StepNode("fail")), StepNode("ok")>>)))
    /\ wst[<<1, 1, 2>>] = "returned"
    /\ Len(traces[1].Events) = 2
    /\ Deref(traces[1].Events[1].Names) = <<"a">>
    /\ Deref(traces[1].Events[2].Names) = <<"a", "a">>
    /\ traces[1].Events[1].Error = <<"boom">>
    /\ traces[1].Events[2].Error = <<"boom">>


\* event.Error != "", the test of Filter, HasError and the writers.
ErrorIsSet(event) == event.Error # <<>>

\* C19: in every state of a traced run TotalSteps is the number of events of
\* the trace and TotalErrors the number of its events whose error is set.
C19_TraceCounters ==
    \A t \in DOMAIN traces :
        /\ traces[t].TotalSteps = Len(traces[t].Events)
        /\ traces[t].TotalErrors =
               Cardinality({i \in DOMAIN traces[t].Events :
                               ErrorIsSet(traces[t].Events[i])})

\* C20: when Traced has returned, its error is exactly the error its step
\* returned, nil when that is nil, with or without a stream and whether or not
\* the stream fails; its Trace is there and holds the event of every Named*
\* step that was executed under it, each finished.
C20_TracedReturnsBoth ==
    \A p \in WPaths :
        (Node(p).op = "Traced" /\ wst[p] = "returned") =>
            /\ wret[p] = wret[Child(p, 1)]
            /\ wtid[p] \in DOMAIN traces
            /\ traces[wtid[p]].returned
            /\ Len(traces[wtid[p]].Events) = Cardinality(Executed(wtid[p]))
            /\ \A i \in DOMAIN traces[wtid[p]].Events :
                  traces[wtid[p]].Events[i].finished

\* Traced(Do(Named("a", step), Named("b", step)), WithStreamTo(w)) where w
\* fails and the second step fails: the error is that of Named("b", ...), and
\* the trace has both events, finished, the second with the error.
C20_Witness ==
    /\ wpc = "done"
    /\ wf = TracedNode("failing",
                DoNode(<<NamedNode("Named", "a", StepNode("ok")),
                         NamedNode("Named", "b", StepNode("fail"))>>))
    /\ wret[<<>>] = NamedError("b", WorkErr(<<1, 2, 1>>, "fail"), FALSE)
    /\ Len(traces[1].Events) = 2
    /\ traces[1].Events[1].finished /\ traces[1].Events[1].Error = <<>>
    /\ traces[1].Events[2].finished /\ traces[1].Events[2].Error = <<"boom">>
    /\ traces[1].lines = <<>>


\* The place of event i in the order in which the events of tr finished.
FinishPlace(tr, i) == CHOOSE k \in DOMAIN tr.order : tr.order[k] = i

\* C21: with a stream that works, in every state the lines are, one for one
\* and in the order in which they finished, the finished events of the trace,
\* each with the names and the error of its event: no event is written twice
\* or before it finished, the line of a step below a Named* step precedes the
\* line of that step, and once Traced has returned there are as many lines as
\* events.
C21_StreamingOrder ==
    \A t \in DOMAIN traces :
        traces[t].stream = "ok" =>
            /\ Len(traces[t].lines) = Len(traces[t].order)
            /\ \A k, l \in DOMAIN traces[t].order :
                  k # l => traces[t].order[k] # traces[t].order[l]
            /\ {traces[t].order[k] : k \in DOMAIN traces[t].order}
                   = {i \in DOMAIN traces[t].Events : traces[t].Events[i].finished}
            /\ \A k \in DOMAIN traces[t].lines :
                  /\ traces[t].lines[k].step_names
                         = Deref(traces[t].Events[traces[t].order[k]].Names)
                  /\ traces[t].lines[k].error
                         = traces[t].Events[traces[t].order[k]].Error
            /\ \A p, q \in Executed(t) :
                  (p # q /\ IsPrefix(p, q) /\ wst[p] = "returned") =>
                      FinishPlace(traces[t], widx[q]) < FinishPlace(traces[t], widx[p])
            /\ traces[t].returned => Len(traces[t].lines) = Len(traces[t].Events)

\* Traced(Named("a", Do(Named("a", step), Named("b", step))), WithStreamTo(w)):
\* the events are [a], [a, a], [a, b] and the lines [a, a], [a, b], [a].
C21_Witness ==
    /\ wpc = "done"
    /\ wf = TracedNode("ok", NamedNode("Named", "a",
                DoNode(<<NamedNode("Named", "a", StepNode("ok")),
                         NamedNode("Named", "b", StepNode("ok"))>>)))
    /\ Len(traces[1].Events) = 3
    /\ Deref(traces[1].Events[1].Names) = <<"a">>
    /\ traces[1].order = <<2, 3, 1>>
    /\ traces[1].lines = <<[step_names |-> <<"a", "a">>, error |-> <<>>],
                           [step_names |-> <<"a", "b">>, error |-> <<>>],
                           [step_names |-> <<"a">>, error |-> <<>>]>>


(***************************************************************************)
(* Trace.Filter and the filters.  The traces are those Traced makes: every *)
(* event has at least one name and a Start that time.Now() gave, which is  *)
(* not the zero time (0 here).  The Names of an event is a slice: the      *)
(* index of its array in fheap.                                            *)
(***************************************************************************)
MaxEvents == 2

\* Start: time.Now() of Traced.
TraceStart == 1

\* Start: time.Now() of newEvent.
EventStarts == {2, 3}

\* event.Duration
EventDurations == {0, 1}

\* The name paths of the events.
EventPaths == {<<"a">>, <<"a", "b">>}

\* event.Error: "" or a text.
EventErrors == {<<>>, <<"boom">>}

EventValues ==
    [Names : EventPaths, Start : EventStarts, Duration : EventDurations,
     Error : EventErrors]

EventLists == UNION {[1..n -> EventValues] : n \in 0..MaxEvents}

\* The depth arguments: below 1, the depths of the events, and beyond.
DepthArgs == {-1, 0, 1, 2, 3}

HasError == [kind |-> "HasError", depth |-> 0]

NoError == [kind |-> "NoError", depth |-> 0]

DepthEquals(depth) == [kind |-> "DepthEquals", depth |-> depth]

DepthAtMost(depth) == [kind |-> "DepthAtMost", depth |-> depth]

DepthFilters ==
    {DepthEquals(d) : d \in DepthArgs} \cup {DepthAtMost(d) : d \in DepthArgs}

\* Filter(), Filter(f) and Filter(f, g).
FilterLists ==
    {<<>>} \cup {<<f>> : f \in {HasError, NoError} \cup DepthFilters}
           \cup {<<f, g>> : f \in {HasError, NoError}, g \in DepthFilters}
           \cup {<<g, f>> : f \in {HasError, NoError}, g \in DepthFilters}

\* len(event.Names) == depth
DepthEqualsHolds(depth, event) == Len(fheap[event.Names]) = depth

\* len(event.Names) < depth
DepthBelowHolds(depth, event) == Len(fheap[event.Names]) < depth

\* len(event.Names) <= depth
DepthAtMostHolds(depth, event) == Len(fheap[event.Names]) <= depth

\* filter(event)
Holds(filter, event) ==
    CASE filter.kind = "HasError" -> ErrorIsSet(event)
      [] filter.kind = "NoError" -> ~ErrorIsSet(event)
      [] filter.kind = "DepthEquals" -> DepthEqualsHolds(filter.depth, event)
      [] filter.kind = "DepthAtMost" -> DepthAtMostHolds(filter.depth, event)

\* One filter that holds is enough.
RECURSIVE MatchesAny(_, _)
MatchesAny(filters, event) ==
    IF filters = <<>> THEN TRUE
    ELSE IF Holds(Head(filters), event) THEN TRUE
    ELSE Tail(filters) # <<>> /\ MatchesAny(Tail(filters), event)

\* match := true; for _, filter := range filters { if !filter(event) {
\*     match = false; break } }
RECURSIVE Matches(_, _)
Matches(filters, event) ==
    IF filters = <<>> THEN TRUE
    ELSE IF ~Holds(Head(filters), event) THEN FALSE
    ELSE Matches(Tail(filters), event)

\* The zero time.Time.
ZeroTime == 0

\* The state of Filter's loop before the first event.
FilterStart ==
    [filtered |-> <<>>, errorCount |-> 0, totalDuration |-> 0,
     earliestStart |-> ZeroTime]

\* The body of the loop for a matching event: the event, a copy of the struct
\* with the same Names slice, is appended.
Matched(acc, event) ==
    [filtered |-> Append(acc.filtered, event),
     errorCount |-> IF ErrorIsSet(event) THEN acc.errorCount + 1
                    ELSE acc.errorCount,
     totalDuration |-> acc.totalDuration + event.Duration,
     earliestStart |-> IF acc.earliestStart = ZeroTime
                           \/ event.Start < acc.earliestStart
                       THEN event.Start ELSE acc.earliestStart]

\* for _, event := range t.Events { ... }, from the i-th event on.
RECURSIVE FilterLoop(_, _, _, _)
FilterLoop(t, filters, i, acc) ==
    IF i > Len(t.Events) THEN acc
    ELSE LET next == IF Matches(filters, t.Events[i])
                     THEN Matched(acc, t.Events[i]) ELSE acc
         IN FilterLoop(t, filters, i + 1, next)

\* t.Filter(filters...)
Filter(t, filters) ==
    LET acc == FilterLoop(t, filters, 1, FilterStart)
    IN [Events |-> acc.filtered,
        Start |-> IF acc.earliestStart # ZeroTime THEN acc.earliestStart
                  ELSE t.Start,
        Duration |-> acc.totalDuration,
        TotalSteps |-> Len(acc.filtered),
        TotalErrors |-> acc.errorCount]

NoTrace ==
    [Events |-> <<>>, Start |-> ZeroTime, Duration |-> 0, TotalSteps |-> 0,
     TotalErrors |-> 0]

\* The trace Traced returns for the events evs: the Names of the i-th event is
\* the array i of the heap.
TraceOfEvents(evs) ==
    [Events |-> [i \in DOMAIN evs |-> [evs[i] EXCEPT !.Names = i]],
     Start |-> TraceStart,
     Duration |-> 1,
     TotalSteps |-> Len(evs),
     TotalErrors |-> Cardinality({i \in DOMAIN evs : evs[i].Error # <<>>})]

\* What can be read through trace tr: its fields, and for every event the
\* elements of its Names.
Contents(tr, heap) ==
    [tr EXCEPT !.Events =
        [i \in DOMAIN tr.Events |-> [tr.Events[i] EXCEPT !.Names = heap[@]]]]

FilterInit ==
    /\ fpc = "idle"
    /\ ftrace = NoTrace
    /\ fheap = <<>>
    /\ ffilters = <<>>
    /\ fout = NoTrace
    /\ fsnap = [original |-> NoTrace, returned |-> NoTrace]

\* Traced returned a trace with the events evs.
TraceMade(evs) ==
    /\ UNCHANGED fother
    /\ fpc = "idle"
    /\ fpc' = "made"
    /\ ftrace' = TraceOfEvents(evs)
    /\ fheap' = [i \in DOMAIN evs |-> evs[i].Names]
    /\ UNCHANGED <<ffilters, fout, fsnap>>

\* filtered := trace.Filter(filters...)
FilterCall(filters) ==
    /\ UNCHANGED fother
    /\ fpc = "made"
    /\ fpc' = "filtered"
    /\ ffilters' = filters
    /\ fout' = Filter(ftrace, filters)
    /\ fsnap' = [original |-> Contents(ftrace, fheap),
                 returned |-> Contents(fout', fheap)]
    /\ UNCHANGED <<ftrace, fheap>>

\* The event e is written to: e.Names[0] = "modified", e.Error = "modified".
Written(event) == [event EXCEPT !.Error = <<"modified">>]

\* filtered.Events[i].Names[0] = "modified"; filtered.Events[i].Error = ...
MutateReturned(i) ==
    /\ UNCHANGED fother
    /\ fpc = "filtered"
    /\ i \in DOMAIN fout.Events
    /\ fpc' = "wroteReturned"
    /\ fheap' = [fheap EXCEPT ![fout.Events[i].Names][1] = "modified"]
    /\ fout' = [fout EXCEPT !.Events[i] = Written(@)]
    /\ UNCHANGED <<ftrace, ffilters, fsnap>>

\* trace.Events[i].Names[0] = "modified"; trace.Events[i].Error = ...
MutateOriginal(i) ==
    /\ UNCHANGED fother
    /\ fpc = "filtered"
    /\ i \in DOMAIN ftrace.Events
    /\ fpc' = "wroteOriginal"
    /\ fheap' = [fheap EXCEPT ![ftrace.Events[i].Names][1] = "modified"]
    /\ ftrace' = [ftrace EXCEPT !.Events[i] = Written(@)]
    /\ UNCHANGED <<fout, ffilters, fsnap>>

FilterNext ==
    \/ fpc = "idle" /\ \E evs \in EventLists : TraceMade(evs)
    \/ fpc = "made" /\ \E filters \in FilterLists : FilterCall(filters)
    \/ fpc = "filtered" /\ \E i \in 1..MaxEvents : MutateReturned(i)
    \/ fpc = "filtered" /\ \E i \in 1..MaxEvents : MutateOriginal(i)

\* The indices of the events of t that satisfy every one of the filters.
Satisfying(t, filters) ==
    {i \in DOMAIN t.Events :
        \A k \in DOMAIN filters : Holds(filters[k], t.Events[i])}

\* The elements of the set of numbers S in increasing order.
Ascending(S) ==
    CHOOSE f \in [1..Cardinality(S) -> S] :
        \A a, b \in 1..Cardinality(S) : a < b => f[a] < f[b]

RECURSIVE SumOfDurations(_, _)
SumOfDurations(t, S) ==
    IF S = {} THEN 0
    ELSE LET i == CHOOSE i \in S : TRUE
         IN t.Events[i].Duration + SumOfDurations(t, S \ {i})

\* C22: the trace Filter returns has as Events exactly the events that
\* satisfy all the filters, in their original order, as TotalSteps their
\* number, as TotalErrors the number of them with an error, as Duration the
\* sum of their durations, and as Start the earliest of their Starts, or the
\* Start of the original trace when there is none; then it has no event and
\* the duration zero.
C22_Filter ==
    fpc = "filtered" =>
        LET S == Satisfying(ftrace, ffilters)
        IN /\ Len(fout.Events) = Cardinality(S)
           /\ \A k \in DOMAIN fout.Events :
                 fout.Events[k] = ftrace.Events[Ascending(S)[k]]
           /\ fout.TotalSteps = Cardinality(S)
           /\ fout.TotalErrors
                  = Cardinality({i \in S : ErrorIsSet(ftrace.Events[i])})
           /\ fout.Duration = SumOfDurations(ftrace, S)
           /\ S # {} =>
                 /\ \E i \in S : fout.Start = ftrace.Events[i].Start
                 /\ \A i \in S : fout.Start <= ftrace.Events[i].Start
           /\ S = {} =>
                 /\ fout.Start = ftrace.Start
                 /\ fout.Events = <<>>
                 /\ fout.Duration = 0

\* Filter(HasError(), DepthAtMost(2)) on two events that both match, the
\* second having started first.
C22_Witness ==
    /\ fpc = "filtered"
    /\ ffilters = <<HasError, DepthAtMost(2)>>
    /\ Len(ftrace.Events) = 2
    /\ ftrace.Events[1].Start = 3 /\ ftrace.Events[2].Start = 2
    /\ ftrace.Events[1].Duration = 1 /\ ftrace.Events[2].Duration = 1
    /\ fout.Events = ftrace.Events
    /\ fout.Start = 2 /\ fout.Duration = 2
    /\ fout.TotalSteps = 2 /\ fout.TotalErrors = 2

\* Filter(HasError()) on a trace of two events without error.
C22_WitnessNothing ==
    /\ fpc = "filtered"
    /\ ffilters = <<HasError>>
    /\ Len(ftrace.Events) = 2
    /\ ftrace.Events[1].Duration = 1
    /\ fout.Events = <<>> /\ fout.Duration = 0 /\ fout.Start = TraceStart

\* C23: Filter does not change the trace it is applied to, and afterwards a
\* write to an event of the returned trace, to an element of its Names or to
\* its Error, changes nothing that can be read through the original trace,
\* and a write to an event of the original nothing that can be read through
\* the returned one.
C23_FilterIndependence ==
    /\ fpc \in {"filtered", "wroteReturned"} =>
           Contents(ftrace, fheap) = fsnap.original
    /\ fpc \in {"filtered", "wroteOriginal"} =>
           Contents(fout, fheap) = fsnap.returned

\* C24: DepthEquals(d) holds for exactly the events whose Names has d
\* elements and DepthAtMost(d) for those whose Names has at most d, and for
\* d <= 0 for none: Filter with one of them returns exactly these events.
C24_DepthFilters ==
    fpc \in {"made", "filtered"} =>
        /\ \A i \in DOMAIN ftrace.Events, d \in DepthArgs :
              /\ Holds(DepthEquals(d), ftrace.Events[i])
                     <=> (d >= 1 /\ Len(fheap[i]) = d)
              /\ Holds(DepthAtMost(d), ftrace.Events[i])
                     <=> (d >= 1 /\ Len(fheap[i]) <= d)
        /\ (fpc = "filtered" /\ Len(ffilters) = 1
                /\ ffilters[1].kind \in {"DepthEquals", "DepthAtMost"}) =>
              /\ ffilters[1].depth <= 0 => fout.Events = <<>>
              /\ \A k \in DOMAIN fout.Events :
                    IF ffilters[1].kind = "DepthEquals"
                    THEN Len(fheap[fout.Events[k].Names]) = ffilters[1].depth
                    ELSE Len(fheap[fout.Events[k].Names]) <= ffilters[1].depth
              /\ \A i \in DOMAIN ftrace.Events :
                    (IF ffilters[1].kind = "DepthEquals"
                     THEN Len(fheap[i]) = ffilters[1].depth
                     ELSE Len(fheap[i]) <= ffilters[1].depth)
                        => \E k \in DOMAIN fout.Events :
                               fout.Events[k] = ftrace.Events[i]

\* Filter(DepthAtMost(1)) on events of depths 2 and 1 returns the second.
C24_Witness ==
    /\ fpc = "filtered"
    /\ ffilters = <<DepthAtMost(1)>>
    /\ fheap = <<<<"a", "b">>, <<"a">>>>
    /\ fout.Events = <<ftrace.Events[2]>>

\* Filter(DepthEquals(0)) on a trace with events returns none.
C24_WitnessZero ==
    /\ fpc = "filtered"
    /\ ffilters = <<DepthEquals(0)>>
    /\ Len(ftrace.Events) = 2
    /\ fout.Events = <<>>


(***************************************************************************)
(* OnError, Collect, Render, Apply and the stage combinators.  A callable  *)
(* that is called leaves a mark on the state t and returns what acfg says. *)
(***************************************************************************)
Invoked(callee, arg) == [callee |-> callee, arg |-> arg]

Returned(val, err) == [val |-> val, err |-> err]

\* The zero value of a result type; also the nil slice.
Zero == <<>>

\* The error the callable named callee returns when it fails.
FailureOf(callee) == [kind |-> "errors.New", at |-> callee, msg |-> "boom"]

AlgebraInit ==
    /\ apc = "idle"
    /\ afn = "none"
    /\ acfg = <<>>
    /\ ai = 0
    /\ aat = "check"
    /\ aval = Zero
    /\ alog = <<>>
    /\ astate = <<>>
    /\ actx = FALSE
    /\ aret = Returned(Zero, NilErr)

\* A callable is called with arg: the call is logged and t gets its mark.
Invoke(callee, arg) ==
    /\ alog' = Append(alog, Invoked(callee, arg))
    /\ astate' = Append(astate, callee)

\* The closure returns.
Finish(val, err) ==
    /\ apc' = "done"
    /\ aret' = Returned(val, err)

\* What onError does: whether it returns an error, and which fallback it
\* returns: nil, a step that succeeds, or a step that fails.
OnErrorConfigs ==
    [step : {"ok", "fail"}, handlerFails : BOOLEAN,
     fallback : {"nil", "ok", "fail"}]

\* OnError(step, onError) is called.
OnErrorCall(cfg) ==
    /\ UNCHANGED aother
    /\ apc = "idle"
    /\ apc' = "running"
    /\ afn' = "OnError"
    /\ acfg' = cfg
    /\ ai' = 1
    /\ UNCHANGED <<aat, aval, alog, astate, actx, aret>>

\* if err := step(ctx, t); err != nil { ... }; return nil
OnErrorStep ==
    /\ UNCHANGED aother
    /\ apc = "running" /\ afn = "OnError" /\ ai = 1
    /\ Invoke("step", Zero)
    /\ IF acfg.step = "fail"
       THEN /\ aval' = FailureOf("step")
            /\ ai' = 2
            /\ UNCHANGED <<apc, aret>>
       ELSE /\ Finish(Zero, NilErr)
            /\ UNCHANGED <<aval, ai>>
    /\ UNCHANGED <<afn, acfg, aat, actx>>

\* The fallback is run whenever there is one.
AfterHandlerFallbackFirst(cfg) ==
    IF cfg.fallback # "nil" THEN "fallback"
    ELSE IF cfg.handlerFails THEN "return err"
    ELSE "return nil"

\* if err != nil { return err }; if fallback == nil { return nil };
\* return fallback(ctx, t)
AfterHandler(cfg) ==
    IF cfg.handlerFails THEN "return err"
    ELSE IF cfg.fallback = "nil" THEN "return nil"
    ELSE "fallback"

\* fallback, err := onError(ctx, t, err), and what follows it.
OnErrorHandler ==
    /\ UNCHANGED aother
    /\ apc = "running" /\ afn = "OnError" /\ ai = 2
    /\ Invoke("onError", aval)
    /\ CASE AfterHandler(acfg) = "return err" ->
                /\ Finish(Zero, FailureOf("onError"))
                /\ UNCHANGED ai
         [] AfterHandler(acfg) = "return nil" ->
                /\ Finish(Zero, NilErr)
                /\ UNCHANGED ai
         [] AfterHandler(acfg) = "fallback" ->
                /\ ai' = 3
                /\ UNCHANGED <<apc, aret>>
    /\ UNCHANGED <<afn, acfg, aat, aval, actx>>

\* return fallback(ctx, t)
OnErrorFallback ==
    /\ UNCHANGED aother
    /\ apc = "running" /\ afn = "OnError" /\ ai = 3
    /\ Invoke("fallback", Zero)
    /\ Finish(Zero, IF acfg.fallback = "fail" THEN FailureOf("fallback") ELSE NilErr)
    /\ UNCHANGED <<afn, acfg, ai, aat, aval, actx>>

OnErrorNext ==
    \/ apc = "idle" /\ \E cfg \in OnErrorConfigs : OnErrorCall(cfg)
    \/ OnErrorStep
    \/ OnErrorHandler
    \/ OnErrorFallback

\* The longest input of Render and Apply, and the most items Collect gets.
MaxItems == 3

\* ErrExhausted = errors.New("extraction exhausted")
ErrExhausted == [kind |-> "errors.New", at |-> "flow", msg |-> "extraction exhausted"]

\* fmt.Errorf("...: %w", err)
Errorf(err) == [kind |-> "fmt.Errorf", Err |-> err]

\* &IndexedError{Index: i, Err: err}
IndexedError(i, err) == [kind |-> "IndexedError", Index |-> i, Err |-> err]

\* errors.Is(err, target): err or an error reached from it by Unwrap is target.
RECURSIVE Is(_, _)
Is(err, target) ==
    IF err = target THEN TRUE
    ELSE IF "Err" \in DOMAIN err THEN Is(err.Err, target)
    ELSE FALSE

\* What a call of the producer returns: an item, ErrExhausted, an error that
\* wraps ErrExhausted, or another error.
ProducerOutcomes == {"item", "exhausted", "wrapped", "fail"}

ProducerErr(out) ==
    CASE out = "item" -> NilErr
      [] out = "exhausted" -> ErrExhausted
      [] out = "wrapped" -> Errorf(ErrExhausted)
      [] out = "fail" -> FailureOf("f")

\* The item the producer returns at its attempt i.
Item(i) == <<"item", i>>

\* The context is cancelled while the closure runs.
CtxCancel ==
    /\ UNCHANGED aother
    /\ apc = "running"
    /\ afn \in {"Collect", "Render", "Apply"}
    /\ ~actx
    /\ actx' = TRUE
    /\ UNCHANGED <<apc, afn, acfg, ai, aat, aval, alog, astate, aret>>

\* Collect(f) is called: var collected []U; i := 0.  acfg keeps what the
\* producer returned so far.
CollectCall ==
    /\ UNCHANGED aother
    /\ apc = "idle"
    /\ apc' = "running"
    /\ afn' = "Collect"
    /\ ai' = 0
    /\ aat' = "check"
    /\ UNCHANGED <<acfg, aval, alog, astate, actx, aret>>

\* The context is not looked at.
CtxErrIgnored(cancelled) == NilErr

\* ctx.Err()
CtxErr(cancelled) == IF cancelled THEN CanceledErr ELSE NilErr

\* if err := ctx.Err(); err != nil { return nil, err }
CollectCheck ==
    /\ UNCHANGED aother
    /\ apc = "running" /\ afn = "Collect" /\ aat = "check"
    /\ IF CtxErr(actx) # NilErr
       THEN /\ Finish(Zero, CtxErr(actx))
            /\ UNCHANGED aat
       ELSE /\ aat' = "call"
            /\ UNCHANGED <<apc, aret>>
    /\ UNCHANGED <<afn, acfg, ai, aval, alog, astate, actx>>

\* item, err := f(ctx, t), and what follows it.
CollectInvoke(out) ==
    /\ UNCHANGED aother
    /\ apc = "running" /\ afn = "Collect" /\ aat = "call"
    /\ out = "item" => Len(aval) < MaxItems
    /\ Invoke("f", ai)
    /\ acfg' = Append(acfg, out)
    /\ IF ProducerErr(out) # NilErr
       THEN /\ IF Is(ProducerErr(out), ErrExhausted)
               THEN Finish(aval, NilErr)
               ELSE Finish(Zero, IndexedError(ai, ProducerErr(out)))
            /\ UNCHANGED <<ai, aat, aval>>
       ELSE /\ aval' = Append(aval, Item(ai))
            /\ ai' = ai + 1
            /\ aat' = "check"
            /\ UNCHANGED <<apc, aret>>
    /\ UNCHANGED <<afn, actx>>

\* The elements of the inputs.
Elements == {10, 20, 30}

\* The inputs of Render and Apply, and the elements for which f fails.
ElementConfigs ==
    [items : SeqsUpTo(Elements, MaxItems), failOn : SUBSET Elements]

\* What f returns for item when it succeeds.
Out(item) == <<"out", item>>

\* Render(f) or Apply(f) is called with items; for Render,
\* results := make([]Out, len(items)).
ElementsCall(fn, cfg) ==
    /\ UNCHANGED aother
    /\ apc = "idle"
    /\ apc' = "running"
    /\ afn' = fn
    /\ acfg' = cfg
    /\ ai' = 1
    /\ aat' = "check"
    /\ aval' = IF fn = "Render" THEN [k \in DOMAIN cfg.items |-> Zero] ELSE Zero
    /\ UNCHANGED <<alog, astate, actx, aret>>

\* for i, item := range items { if err := ctx.Err(); err != nil { return
\* nil, err } ... }; return results, nil
ElementsCheck ==
    /\ UNCHANGED aother
    /\ apc = "running" /\ afn \in {"Render", "Apply"} /\ aat = "check"
    /\ IF ai > Len(acfg.items)
       THEN /\ Finish(aval, NilErr)
            /\ UNCHANGED aat
       ELSE IF CtxErr(actx) # NilErr
       THEN /\ Finish(Zero, CtxErr(actx))
            /\ UNCHANGED aat
       ELSE /\ aat' = "call"
            /\ UNCHANGED <<apc, aret>>
    /\ UNCHANGED <<afn, acfg, ai, aval, alog, astate, actx>>

\* The index of the element counts from one.
ElementIndexFromOne(i) == i

\* i of range items, for the i-th element.
ElementIndex(i) == i - 1

\* out, err := f(ctx, t, item), and what follows it.
ElementsInvoke ==
    /\ UNCHANGED aother
    /\ apc = "running" /\ afn \in {"Render", "Apply"} /\ aat = "call"
    /\ Invoke("f", acfg.items[ai])
    /\ IF acfg.items[ai] \in acfg.failOn
       THEN /\ Finish(Zero, IndexedError(ElementIndex(ai), FailureOf("f")))
            /\ UNCHANGED <<ai, aat, aval>>
       ELSE /\ aval' = IF afn = "Render"
                       THEN [aval EXCEPT ![ai] = Out(acfg.items[ai])]
                       ELSE aval
            /\ ai' = ai + 1
            /\ aat' = "check"
            /\ UNCHANGED <<apc, aret>>
    /\ UNCHANGED <<afn, acfg, actx>>

CollectionNext ==
    \/ CtxCancel
    \/ CollectCall
    \/ CollectCheck
    \/ apc = "running" /\ \E out \in ProducerOutcomes : CollectInvoke(out)
    \/ apc = "idle" /\ \E fn \in {"Render", "Apply"}, cfg \in ElementConfigs :
                          ElementsCall(fn, cfg)
    \/ ElementsCheck
    \/ ElementsInvoke

\* The callables of the stage combinators, in the order of their calls.
Stages(fn) ==
    CASE fn = "Pipeline" -> <<"extract", "transform", "consume">>
      [] fn = "With" -> <<"extract", "consume">>
      [] fn = "From" -> <<"extract", "transform">>
      [] fn = "Chain" -> <<"first", "second">>
      [] fn = "Chain3" -> <<"first", "second", "third">>
      [] fn = "Chain4" -> <<"first", "second", "third", "fourth">>
      [] fn = "Feed" -> <<"transform", "consume">>
      [] fn = "Spawn" -> <<"derive", "step">>

StageCombinators ==
    {"Pipeline", "With", "From", "Chain", "Chain3", "Chain4", "Feed", "Spawn"}

\* A Transform and a Consume take a value; so does the step of Spawn, whose
\* state is the child that derive returned.
TakesValue(callee) == callee \notin {"extract", "derive"}

\* An Extract and a Transform return a value with their error.
GivesValue(callee) == callee \notin {"consume", "step"}

\* Chain, Chain3, Chain4 and Feed make a callable that takes a value.
Argument(fn) == IF Stages(fn)[1] \in {"first", "transform"} THEN <<"a">> ELSE Zero

\* The combinator fn is called; outcomes says which of its callables fail.
StagesCall(fn, outcomes) ==
    /\ UNCHANGED aother
    /\ apc = "idle"
    /\ apc' = "running"
    /\ afn' = fn
    /\ acfg' = outcomes
    /\ ai' = 1
    /\ aval' = Argument(fn)
    /\ UNCHANGED <<aat, alog, astate, actx, aret>>

\* The next stage is called whatever the error.
ProceedsAlways(err) == TRUE

\* if err != nil { return err }, or return zero, err
Proceeds(err) == err = NilErr

\* The next callable is called, and either the closure returns or the value
\* goes to the callable after it.
StageInvoke ==
    /\ UNCHANGED aother
    /\ apc = "running" /\ afn \in StageCombinators
    /\ LET callee == Stages(afn)[ai]
           err == IF acfg[ai] = "fail" THEN FailureOf(callee) ELSE NilErr
           val == IF GivesValue(callee) /\ err = NilErr
                  THEN Append(aval, callee) ELSE Zero
       IN /\ Invoke(callee, IF TakesValue(callee) THEN aval ELSE Zero)
          /\ IF ai = Len(Stages(afn))
             THEN /\ Finish(val, err)
                  /\ UNCHANGED <<ai, aval>>
             ELSE IF ~Proceeds(err)
             THEN /\ Finish(Zero, err)
                  /\ UNCHANGED <<ai, aval>>
             ELSE /\ ai' = ai + 1
                  /\ aval' = val
                  /\ UNCHANGED <<apc, aret>>
    /\ UNCHANGED <<afn, acfg, aat, actx>>

StagesNext ==
    \/ apc = "idle" /\ \E fn \in StageCombinators :
                          \E outcomes \in [DOMAIN Stages(fn) -> {"ok", "fail"}] :
                              StagesCall(fn, outcomes)
    \/ StageInvoke

AlgebraNext ==
    \/ OnErrorNext
    \/ CollectionNext
    \/ StagesNext

\* The callees called so far, in order.
Callees == [k \in DOMAIN alog |-> alog[k].callee]

\* C25: OnError calls step first; if step succeeds it returns nil and calls
\* nothing else; if step fails it calls the handler once, with the error of
\* step, and then: (a) when the handler returns an error, this error is the
\* result and no fallback runs, (b) when it returns no error and a nil
\* fallback, the result is nil, (c) otherwise the fallback runs once and what
\* it returns is the result.
C25_OnError ==
    (afn = "OnError" /\ apc = "done") =>
        IF acfg.step = "ok"
        THEN Callees = <<"step">> /\ aret.err = NilErr
        ELSE /\ Len(alog) >= 2
             /\ alog[2] = Invoked("onError", FailureOf("step"))
             /\ IF acfg.handlerFails
                THEN Callees = <<"step", "onError">>
                         /\ aret.err = FailureOf("onError")
                ELSE IF acfg.fallback = "nil"
                THEN Callees = <<"step", "onError">> /\ aret.err = NilErr
                ELSE /\ Callees = <<"step", "onError", "fallback">>
                     /\ aret.err = IF acfg.fallback = "fail"
                                   THEN FailureOf("fallback") ELSE NilErr

\* step fails, the handler returns a fallback that fails: its error is the
\* result.
C25_Witness ==
    /\ afn = "OnError" /\ apc = "done"
    /\ acfg = [step |-> "fail", handlerFails |-> FALSE, fallback |-> "fail"]
    /\ Callees = <<"step", "onError", "fallback">>
    /\ aret.err = FailureOf("fallback")

\* step fails, the handler returns an error and a fallback: no fallback runs.
C25_WitnessHandlerFails ==
    /\ afn = "OnError" /\ apc = "done"
    /\ acfg = [step |-> "fail", handlerFails |-> TRUE, fallback |-> "ok"]
    /\ Callees = <<"step", "onError">>
    /\ aret.err = FailureOf("onError")

\* The items the producer has returned so far, in order.
ItemsSoFar ==
    [k \in 1..Cardinality({j \in DOMAIN acfg : acfg[j] = "item"}) |-> Item(k - 1)]

C26_CollectState ==
    afn = "Collect" =>
        /\ Len(acfg) = Len(alog)
        /\ \A k \in DOMAIN alog :
              /\ alog[k] = Invoked("f", k - 1)
              /\ k < Len(alog) => acfg[k] = "item"
        /\ apc = "running" => aval = ItemsSoFar
        /\ apc = "done" =>
              IF acfg # <<>> /\ acfg[Len(acfg)] \in {"exhausted", "wrapped"}
              THEN aret = Returned(ItemsSoFar, NilErr)
              ELSE IF acfg # <<>> /\ acfg[Len(acfg)] = "fail"
              THEN aret = Returned(Zero, IndexedError(Len(acfg) - 1, FailureOf("f")))
              ELSE actx /\ aret = Returned(Zero, CanceledErr)

C26_CollectStep ==
    (afn = "Collect" /\ apc = "running" /\ aat = "check" /\ actx) =>
        /\ apc' = "done"
        /\ aret' = Returned(Zero, CanceledErr)
        /\ alog' = alog

\* C26: Collect calls the producer again and again, attempt i being its
\* (i+1)-th call, and keeps the items in order; when the producer returns the
\* exhausted sentinel (an error that errors.Is finds to be ErrExhausted), it
\* returns the items and no error; when the producer fails otherwise at
\* attempt i, it returns an IndexedError of index i around that error; and when
\* the context is cancelled at the check before a call, it returns the
\* cancellation error itself and the producer is not called again.
C26_Collect == [](C26_CollectState) /\ [][C26_CollectStep]_vars

\* Two items, then another failure: the IndexedError has index 2.
C26_Witness ==
    /\ afn = "Collect" /\ apc = "done"
    /\ acfg = <<"item", "item", "fail">>
    /\ aret = Returned(Zero, IndexedError(2, FailureOf("f")))

\* One item, then the context is cancelled: the result is the cancellation
\* error, after one call.
C26_WitnessCancelled ==
    /\ afn = "Collect" /\ apc = "done"
    /\ acfg = <<"item">>
    /\ Len(alog) = 1
    /\ aret = Returned(Zero, CanceledErr)

\* Two items, then ErrExhausted: the result is the two items.
C26_WitnessExhausted ==
    /\ afn = "Collect" /\ apc = "done"
    /\ acfg = <<"item", "item", "exhausted">>
    /\ aret = Returned(<<Item(0), Item(1)>>, NilErr)

C27_ElementsState ==
    afn \in {"Render", "Apply"} =>
        /\ Len(alog) <= Len(acfg.items)
        /\ \A k \in DOMAIN alog :
              /\ alog[k] = Invoked("f", acfg.items[k])
              /\ k < Len(alog) => acfg.items[k] \notin acfg.failOn
        /\ apc = "done" =>
              IF alog # <<>> /\ acfg.items[Len(alog)] \in acfg.failOn
              THEN /\ aret.val = Zero
                   /\ aret.err.kind = "IndexedError"
                   /\ aret.err.Index = Len(alog) - 1
                   /\ aret.err.Err = FailureOf("f")
              ELSE IF Len(alog) = Len(acfg.items)
              THEN /\ aret.err = NilErr
                   /\ afn = "Render" =>
                         /\ Len(aret.val) = Len(acfg.items)
                         /\ \A j \in DOMAIN acfg.items :
                               aret.val[j] = Out(acfg.items[j])
              ELSE actx /\ aret = Returned(Zero, CanceledErr)

C27_ElementsStep ==
    (afn \in {"Render", "Apply"} /\ apc = "running" /\ aat = "check" /\ actx
         /\ ai <= Len(acfg.items)) =>
        /\ apc' = "done"
        /\ aret' = Returned(Zero, CanceledErr)
        /\ alog' = alog

\* C27: Render and Apply call f for the elements in index order and stop at
\* the first element for which it fails: no later element is processed, and
\* the error is an IndexedError with the index of that element, counted from
\* zero, around the error of f; when the context is cancelled at the check
\* before an element, the result is the cancellation error itself and f is
\* not called again; on success Render returns as many outputs as inputs,
\* the j-th made from the j-th input.
C27_RenderApply == [](C27_ElementsState) /\ [][C27_ElementsStep]_vars

\* Apply over [10, 20, 30] with a consumer that fails for 30: index 2.
C27_Witness ==
    /\ afn = "Apply" /\ apc = "done"
    /\ acfg = [items |-> <<10, 20, 30>>, failOn |-> {30}]
    /\ Len(alog) = 3
    /\ aret.err = IndexedError(2, FailureOf("f"))

\* Render over [10, 20, 30] succeeds.
C27_WitnessRender ==
    /\ afn = "Render" /\ apc = "done"
    /\ acfg = [items |-> <<10, 20, 30>>, failOn |-> {}]
    /\ aret = Returned(<<Out(10), Out(20), Out(30)>>, NilErr)

\* Render over [10, 20, 30], cancelled after the first element.
C27_WitnessCancelled ==
    /\ afn = "Render" /\ apc = "done"
    /\ acfg.items = <<10, 20, 30>>
    /\ Len(alog) = 1
    /\ aret = Returned(Zero, CanceledErr)

\* The stages of the running combinator that fail.
Failing == {k \in DOMAIN acfg : acfg[k] = "fail"}

\* The value that the stages before stage k of fn have made.
ValueBefore(fn, k) ==
    Argument(fn) \o [j \in 1..(k - 1) |-> Stages(fn)[j]]

\* C28: a stage combinator calls its callables in order, each at most once
\* and each with the value the one before it returned; it stops at the first
\* that fails and returns exactly the error of that one, and no later one is
\* called; the marks the earlier ones left on the state are still there.
C28_ShortCircuit ==
    afn \in StageCombinators =>
        /\ Len(alog) <= Len(Stages(afn))
        /\ \A k \in DOMAIN alog :
              /\ alog[k].callee = Stages(afn)[k]
              /\ alog[k].arg = IF TakesValue(Stages(afn)[k])
                               THEN ValueBefore(afn, k) ELSE Zero
              /\ \A j \in 1..(k - 1) : j \notin Failing
        /\ astate = Callees
        /\ apc = "done" =>
              IF Failing = {}
              THEN /\ Len(alog) = Len(Stages(afn))
                   /\ aret.err = NilErr
              ELSE /\ Len(alog) \in Failing
                   /\ aret.err = FailureOf(Stages(afn)[Len(alog)])
                   /\ aret.val = Zero

\* Chain4 whose third transform fails: first, second and third were called
\* and left their marks, the fourth was not called.
C28_Witness ==
    /\ afn = "Chain4" /\ apc = "done"
    /\ acfg = <<"ok", "ok", "fail", "ok">>
    /\ Callees = <<"first", "second", "third">>
    /\ astate = <<"first", "second", "third">>
    /\ aret = Returned(Zero, FailureOf("third"))


(***************************************************************************)
(* The context carrier.  A context is the sequence of its layers, the      *)
(* innermost last: a flowCtx, which embeds its parent, or a context that    *)
(* context.WithCancel, WithTimeout or WithDeadline derived from its parent *)
(* (errgroup.WithContext uses WithCancel).  context.Background() has no    *)
(* layer.  Wrappers are nested in a chain around a probe that reads its    *)
(* context.                                                                *)
(***************************************************************************)
MaxCarriers == 4

\* context.DeadlineExceeded
DeadlineExceededErr ==
    [kind |-> "deadline exceeded", p |-> 0, i |-> 0, parts |-> <<>>]

\* The wrappers that extend the carrier.
NamedWrapper(name) == [op |-> "Named", arg |-> name]

WithLoggerWrapper(logger) == [op |-> "WithLogger", arg |-> logger]

WithSloggerWrapper(logger) == [op |-> "WithSlogger", arg |-> logger]

TracedWrapper == [op |-> "Traced", arg |-> ""]

Carriers ==
    {NamedWrapper(n) : n \in NameSet}
        \cup {WithLoggerWrapper(l) : l \in {"L", "M"}}
        \cup {WithSloggerWrapper("S"), TracedWrapper}

\* The wrappers that derive a context that can be cancelled: the caller's
\* context.WithCancel, WithTimeout, WithDeadline, and the InParallel whose
\* unit the rest of the chain is, with a sibling that may fail.
Cancellers ==
    {[op |-> o, arg |-> ""] : o \in {"WithCancel", "WithTimeout", "WithDeadline",
                                      "InParallel"}}

CarrierChains(n) == UNION {[1..k -> Carriers] : k \in 1..n}

\* The chains of the model: carriers only; a canceller around one or two
\* carriers; two cancellers, each around a carrier.
Chains ==
    CarrierChains(MaxCarriers)
        \cup {<<c>> \o ks : c \in Cancellers, ks \in CarrierChains(2)}
        \cup {<<c, k, d, l>> : c, d \in Cancellers, k, l \in Carriers}

\* A flowCtx with the fields of origin.
FlowLayer(origin) ==
    [kind |-> "flowCtx", trace |-> origin.trace, names |-> origin.names,
     logger |-> origin.logger, slogger |-> origin.slogger, src |-> 0]

\* A cancelCtx or timerCtx, made by the wrapper at depth src.
CancelLayer(src) ==
    [kind |-> "cancelCtx", trace |-> 0, names |-> <<>>, logger |-> "",
     slogger |-> "", src |-> src]

\* No flowCtx: the result of a failed type assertion.
NoFlowCtx == [kind |-> "nil", trace |-> 0, names |-> <<>>, logger |-> "",
              slogger |-> "", src |-> 0]

\* &flowCtx{trace: nil, names: nil, logger: log.Default(),
\*          slogger: slog.Default()}
DefaultFlowCtx ==
    [kind |-> "flowCtx", trace |-> 0, names |-> <<>>, logger |-> "log.Default()",
     slogger |-> "slog.Default()", src |-> 0]

Front(s) == SubSeq(s, 1, Len(s) - 1)

Last(s) == s[Len(s)]

\* ctx.Value(flowCtxKey{}): a flowCtx returns itself, any other context asks
\* its parent, and context.Background() has no value.
RECURSIVE ValueOf(_)
ValueOf(ctx) ==
    IF ctx = <<>> THEN NoFlowCtx
    ELSE IF Last(ctx).kind = "flowCtx" THEN Last(ctx)
    ELSE ValueOf(Front(ctx))

\* The new flowCtx stands alone.
EmbeddedBackground(parent) == <<>>

\* Context: parent, the embedded context of the new flowCtx.
Embedded(parent) == parent

\* The new flowCtx has the default logger.
OriginOrDefaultLogger(f) ==
    IF f = NoFlowCtx THEN DefaultFlowCtx ELSE [f EXCEPT !.logger = "log.Default()"]

\* if origin == nil { origin = &flowCtx{...} }
OriginOrDefault(f) == IF f = NoFlowCtx THEN DefaultFlowCtx ELSE f

\* f, _ := ctx.Value(flowCtxKey{}).(*flowCtx); f2 := newFlowCtx(ctx, f)
NewFlowCtx(ctx) ==
    Append(Embedded(ctx), FlowLayer(OriginOrDefault(ValueOf(ctx))))

\* f2 with one of its fields assigned.
WithNames(ctx, names) == [ctx EXCEPT ![Len(ctx)].names = names]

WithLoggerSet(ctx, logger) == [ctx EXCEPT ![Len(ctx)].logger = logger]

WithSloggerSet(ctx, logger) == [ctx EXCEPT ![Len(ctx)].slogger = logger]

WithTraceSet(ctx, tr) == [ctx EXCEPT ![Len(ctx)].trace = tr]

\* The context that the wrapper w, entered at depth d, gives to what it wraps.
Wrap(w, d, ctx) ==
    CASE w.op = "Named" ->
             WithNames(NewFlowCtx(ctx), Append(Last(NewFlowCtx(ctx)).names, w.arg))
      [] w.op = "WithLogger" -> WithLoggerSet(NewFlowCtx(ctx), w.arg)
      [] w.op = "WithSlogger" -> WithSloggerSet(NewFlowCtx(ctx), w.arg)
      [] w.op = "Traced" -> WithTraceSet(NewFlowCtx(ctx), d)
      [] OTHER -> Append(ctx, CancelLayer(d))

\* The error the context made at depth src gets when it is cancelled itself.
OwnErr(src) ==
    IF kchain[src].op \in {"WithTimeout", "WithDeadline"}
    THEN DeadlineExceededErr ELSE CanceledErr

\* The depths of the cancellable contexts that ctx is or derives from: a
\* flowCtx has the Done and the Err of the context it embeds.
RECURSIVE DerivedFrom(_)
DerivedFrom(ctx) ==
    IF ctx = <<>> THEN {}
    ELSE IF Last(ctx).kind = "flowCtx" THEN DerivedFrom(Front(ctx))
    ELSE {Last(ctx).src} \cup DerivedFrom(Front(ctx))

\* ctx.Err(): nil until ctx or a context it derives from is cancelled, and
\* then for good the error of the one that was cancelled first.
RECURSIVE FirstOf(_, _)
FirstOf(cancelled, S) ==
    IF cancelled = <<>> THEN NilErr
    ELSE IF Head(cancelled) \in S THEN OwnErr(Head(cancelled))
    ELSE FirstOf(Tail(cancelled), S)

Err(ctx) == FirstOf(kcancelled, DerivedFrom(ctx))

\* Logger(ctx), Slogger(ctx), Names(ctx), getTrace(ctx)
Logger(ctx) ==
    IF ValueOf(ctx) = NoFlowCtx THEN "log.Default()" ELSE ValueOf(ctx).logger

Slogger(ctx) ==
    IF ValueOf(ctx) = NoFlowCtx THEN "slog.Default()" ELSE ValueOf(ctx).slogger

NamesOf(ctx) == ValueOf(ctx).names

GetTrace(ctx) == ValueOf(ctx).trace

\* What the probe reads from its context.
Observation(ctx) ==
    [logger |-> Logger(ctx), slogger |-> Slogger(ctx), names |-> NamesOf(ctx),
     trace |-> GetTrace(ctx), err |-> Err(ctx)]

CarrierInit ==
    /\ kpc = "idle"
    /\ kchain = <<>>
    /\ kdepth = 0
    /\ kctxs = <<<<>>>>
    /\ kcancelled = <<>>
    /\ kobs = <<>>

\* A chain of wrappers around the probe is built; the caller has
\* context.Background() for it.
ChainCall(chain) ==
    /\ UNCHANGED kother
    /\ kpc = "idle"
    /\ kpc' = "running"
    /\ kchain' = chain
    /\ UNCHANGED <<kdepth, kctxs, kcancelled, kobs>>

\* The next wrapper makes its context and calls what it wraps.
Enter ==
    /\ UNCHANGED kother
    /\ kpc = "running"
    /\ kdepth < Len(kchain)
    /\ kdepth' = kdepth + 1
    /\ kctxs' = Append(kctxs, Wrap(kchain[kdepth + 1], kdepth + 1, Last(kctxs)))
    /\ UNCHANGED <<kpc, kchain, kcancelled, kobs>>

\* A context of the chain is cancelled: cancel() is called, the timer of
\* WithTimeout or WithDeadline fires, or a sibling unit of the group fails.
CancelAt(src) ==
    /\ UNCHANGED kother
    /\ kpc = "running"
    /\ src \in 1..kdepth
    /\ kchain[src] \in Cancellers
    /\ \A k \in DOMAIN kcancelled : kcancelled[k] # src
    /\ kcancelled' = Append(kcancelled, src)
    /\ UNCHANGED <<kpc, kchain, kdepth, kctxs, kobs>>

\* The probe reads its context; it reads again when something has changed.
Probe ==
    /\ UNCHANGED kother
    /\ kpc = "running"
    /\ kdepth = Len(kchain)
    /\ IF kobs = <<>> THEN TRUE ELSE Last(kobs) # Observation(Last(kctxs))
    /\ kobs' = Append(kobs, Observation(Last(kctxs)))
    /\ UNCHANGED <<kpc, kchain, kdepth, kctxs, kcancelled>>

\* The probe returns, and with it every wrapper.
ChainReturn ==
    /\ UNCHANGED kother
    /\ kpc = "running"
    /\ kobs # <<>>
    /\ kpc' = "done"
    /\ UNCHANGED <<kchain, kdepth, kctxs, kcancelled, kobs>>

CarrierNext ==
    \/ kpc = "idle" /\ \E chain \in Chains : ChainCall(chain)
    \/ Enter
    \/ kpc = "running" /\ \E src \in 1..MaxCarriers : CancelAt(src)
    \/ Probe
    \/ ChainReturn

(***************************************************************************)
(* Properties of the context carrier.                                     *)
(***************************************************************************)
\* The depths, among the first d wrappers of the chain, of those with op.
DepthsOf(op, d) == {k \in 1..d : kchain[k].op = op}

\* The greatest member of a non-empty set of depths.
Nearest(S) == CHOOSE k \in S : \A l \in S : l <= k

\* The argument of the nearest of the first d wrappers with op, or else def.
NearestArg(op, d, def) ==
    IF DepthsOf(op, d) = {} THEN def ELSE kchain[Nearest(DepthsOf(op, d))].arg

\* The names of the Named wrappers among the first d, outermost first.
RECURSIVE EnclosingNames(_)
EnclosingNames(d) ==
    IF d = 0 THEN <<>>
    ELSE IF kchain[d].op = "Named" THEN Append(EnclosingNames(d - 1), kchain[d].arg)
    ELSE EnclosingNames(d - 1)

\* What a step beneath the first d wrappers is to see of the carrier.
Inherited(d) ==
    [logger |-> NearestArg("WithLogger", d, "log.Default()"),
     slogger |-> NearestArg("WithSlogger", d, "slog.Default()"),
     names |-> EnclosingNames(d),
     trace |-> IF DepthsOf("Traced", d) = {} THEN 0
               ELSE Nearest(DepthsOf("Traced", d))]

\* The carrier part of an observation.
CarrierOf(obs) ==
    [logger |-> obs.logger, slogger |-> obs.slogger, names |-> obs.names,
     trace |-> obs.trace]

\* C29: each extension of the carrier (Named, WithLogger, WithSlogger, Traced)
\* changes only its own field for what is nested beneath it and leaves the
\* others as inherited, in any nesting order: at every depth the logger is
\* the one of the nearest enclosing WithLogger, the structured logger the one
\* of the nearest enclosing WithSlogger, the path the names of the enclosing
\* Named wrappers in order, and the recorder the one of the nearest
\* enclosing Traced; and that is what the probe reads.
C29_CarrierInheritance ==
    /\ \A d \in 0..kdepth :
           CarrierOf(Observation(kctxs[d + 1])) = Inherited(d)
    /\ \A k \in DOMAIN kobs : CarrierOf(kobs[k]) = Inherited(Len(kchain))

\* Under WithLogger(L, Named(a, WithSlogger(S, Named(b, probe)))) the probe
\* has read logger L, structured logger S and the path [a, b].
C29_Witness ==
    /\ kchain = <<WithLoggerWrapper("L"), NamedWrapper("a"),
                  WithSloggerWrapper("S"), NamedWrapper("b")>>
    /\ kobs # <<>>
    /\ kobs[1].logger = "L"
    /\ kobs[1].slogger = "S"
    /\ kobs[1].names = <<"a", "b">>

\* A logger installed beneath another one and above a recorder: the probe
\* has read the inner logger and the recorder.
C29_WitnessNearest ==
    /\ kchain = <<WithLoggerWrapper("L"), WithLoggerWrapper("M"), TracedWrapper,
                  NamedWrapper("a")>>
    /\ kobs # <<>>
    /\ kobs[1].logger = "M"
    /\ kobs[1].trace = 3

\* Every wrapper between depth i and depth j is a carrier.
CarriersBetween(i, j) == \A k \in (i + 1)..j : kchain[k] \in Carriers

\* C30: a carrier never hides cancellation: the context a carrier makes has
\* at all times the error of the context it was made from, through any
\* number of carriers; once a context of the chain is cancelled (by cancel(),
\* by the timer of WithTimeout or WithDeadline, or by a failing sibling),
\* every context beneath it has an error; and the error the probe has read
\* is the error of its context.
C30_CancellationPropagation ==
    /\ \A i, j \in 0..kdepth :
           (i <= j /\ CarriersBetween(i, j))
               => Err(kctxs[j + 1]) = Err(kctxs[i + 1])
    /\ \A k \in DOMAIN kcancelled : \A d \in kcancelled[k]..kdepth :
           Err(kctxs[d + 1]) # NilErr
    /\ \A k \in DOMAIN kobs :
           kobs[k].err # NilErr => kobs[k].err = Err(Last(kctxs))

\* As in TestTracedContextCancellation: the caller's context is cancelled,
\* and the probe under Traced(Named(a, ...)) has read context.Canceled.
C30_Witness ==
    /\ kchain = <<[op |-> "WithCancel", arg |-> ""], TracedWrapper,
                  NamedWrapper("a")>>
    /\ kcancelled = <<1>>
    /\ kobs # <<>>
    /\ Last(kobs).err = CanceledErr

\* The timer fires after the probe has read a context without error; the
\* probe reads again, under two carriers, and gets DeadlineExceeded.
C30_WitnessTimeout ==
    /\ kchain = <<[op |-> "WithTimeout", arg |-> ""], WithLoggerWrapper("L"),
                  NamedWrapper("a")>>
    /\ Len(kobs) = 2
    /\ kobs[1].err = NilErr
    /\ kobs[2].err = DeadlineExceededErr

\* A sibling of the inner group fails: the probe has read context.Canceled
\* while the context of the timeout around the group has no error.
C30_WitnessSibling ==
    /\ kchain = <<[op |-> "WithTimeout", arg |-> ""], NamedWrapper("a"),
                  [op |-> "InParallel", arg |-> ""], WithLoggerWrapper("L")>>
    /\ kcancelled = <<3>>
    /\ kobs # <<>>
    /\ Last(kobs).err = CanceledErr
    /\ Err(kctxs[3]) = NilErr

(***************************************************************************)
(* Further properties of the serial engine.                               *)
(***************************************************************************)
\* The error the test TestFromMap/NilStep expects.
ErrNilStep == [kind |-> "nil step", p |-> 0, i |-> 0, parts |-> <<>>]

\* Provider p has been invoked.
ProviderInvoked(p) == \E k \in DOMAIN slog : slog[k] = Ev("provider", p, 0)

\* C31: InSerial over a provider whose step list contains a nil step returns
\* an error matching ErrNilStep and executes none of the steps of the list,
\* not even the non-nil steps that precede the nil one: once such a provider
\* has been invoked no step of it is ever called, the call does not panic,
\* and its result is ErrNilStep.
C31_NilStepRejected ==
    (sfn = "InSerialWith" /\ ~sopts.JoinErrors) =>
        \A p \in DOMAIN sprov :
            (sprov[p].nil # 0 /\ ProviderInvoked(p)) =>
                /\ \A k \in DOMAIN slog : slog[k].p = p => slog[k].ev = "provider"
                /\ spc # "panic"
                /\ spc = "done" => sret = ErrNilStep

\* The number of steps the providers before p have produced.
RECURSIVE StepsBefore(_)
StepsBefore(p) ==
    IF p <= 1 THEN 0
    ELSE StepsBefore(p - 1)
             + (IF sprov[p - 1].fails THEN 0 ELSE Len(sprov[p - 1].steps))

\* The event at k is the return of a step that failed.
FailedAt(k) == slog[k].ev = "ret" /\ sprov[slog[k].p].steps[slog[k].i]

\* C32: InSerial invokes provider k+1 only after every step produced by
\* provider k has completed, so a provider finds in the state the mutations
\* of all the steps of the providers before it; under fail-fast no provider
\* is invoked after a failing step.  InParallel has expanded every provider
\* before it runs any step.
C32_LazySerialExpansion ==
    /\ sfn = "InSerialWith" =>
          /\ \A k \in DOMAIN slog :
                slog[k].ev = "provider" =>
                    /\ \A q \in 1..(slog[k].p - 1) :
                           ~sprov[q].fails =>
                               \A i \in DOMAIN sprov[q].steps :
                                   \E j \in 1..(k - 1) : slog[j] = Ev("ret", q, i)
                    /\ ~sopts.JoinErrors => \A j \in 1..(k - 1) : ~FailedAt(j)
          /\ \A p \in DOMAIN sseen : sseen[p] = StepsBefore(p)
    /\ (\E u \in DOMAIN ust : ust[u] # "idle") => pp > Len(pprov)

\* A provider invoked after the two steps of the provider before it, the
\* first of which failed under JoinErrors: it found both steps' mutations.
C32_Witness ==
    /\ sfn = "InSerialWith"
    /\ sopts.JoinErrors
    /\ Len(sprov) = 2
    /\ sprov[1].steps = <<TRUE, FALSE>>
    /\ sseen = <<0, 2>>

\* A fail-fast InSerial that returned the error of a step of its first
\* provider and has not invoked the second.
C32_WitnessFailFast ==
    /\ sfn = "InSerialWith"
    /\ ~sopts.JoinErrors
    /\ spc = "done"
    /\ Len(sprov) = 2
    /\ sret = StepErr(1, 2)
    /\ sseen = <<0>>

\* InParallel with two providers has a unit running.
C32_WitnessParallel ==
    /\ Len(pprov) = 2
    /\ \E u \in DOMAIN ust : ust[u] = "running"

\* What a joining InSerialWith does from provider p on: every provider is
\* invoked, and every step of a provider that did not fail is run.
RECURSIVE JoinPlan(_, _)
JoinPlan(provs, p) ==
    IF p > Len(provs) THEN <<>>
    ELSE <<Ev("provider", p, 0)>> \o
         (IF provs[p].fails THEN <<>> ELSE RunOf(p, Len(provs[p].steps))) \o
         JoinPlan(provs, p + 1)

\* The errors it meets, in the order in which it meets them.
RECURSIVE JoinErrs(_, _)
JoinErrs(provs, p) ==
    IF p > Len(provs) THEN <<>>
    ELSE (IF provs[p].fails THEN <<ProvErr(p)>> ELSE FailuresOf(p, provs[p].steps)) \o
         JoinErrs(provs, p + 1)

\* C37: in InSerialWith with JoinErrors = true the error of a provider does
\* not stop the run: it is added to the aggregate, every later provider is
\* still invoked and its steps are run, and the call returns the aggregate of
\* the providers' errors and the steps' errors in the order in which they were
\* met (nil when there is none).
C37_SerialJoinProviders ==
    (spc # "idle" /\ sfn = "InSerialWith" /\ sopts.JoinErrors) =>
        /\ IsPrefix(slog, JoinPlan(sprov, 1))
        /\ IsPrefix(serrs, JoinErrs(sprov, 1))
        /\ spc = "done" =>
              /\ slog = JoinPlan(sprov, 1)
              /\ IF JoinErrs(sprov, 1) = <<>>
                 THEN sret = NilErr
                 ELSE /\ sret.kind = "join"
                      /\ sret.parts = JoinErrs(sprov, 1)

\* A joining InSerialWith whose first provider failed and whose second gave
\* two steps, of which the second failed: both steps ran, and the aggregate
\* holds the provider's error and then the step's.
C37_Witness ==
    /\ spc = "done"
    /\ sfn = "InSerialWith"
    /\ sopts.JoinErrors
    /\ Len(sprov) = 2
    /\ sprov[1].fails
    /\ slog = <<Ev("provider", 1, 0), Ev("provider", 2, 0), Ev("call", 2, 1),
                Ev("ret", 2, 1), Ev("call", 2, 2), Ev("ret", 2, 2)>>
    /\ sret.kind = "join"
    /\ sret.parts = <<ProvErr(1), StepErr(2, 2)>>

(***************************************************************************)
(* Further properties of tracing.                                         *)
(***************************************************************************)
\* The step that holds slot i of trace t is returning.
Finishing(t, i) ==
    \E p \in Executed(t) : widx[p] = i /\ wst[p] = "inner" /\ wst'[p] = "returned"

C33_SlotsState ==
    \A t \in DOMAIN traces :
        /\ \A p, q \in Executed(t) : p # q => widx[p] # widx[q]
        /\ {widx[p] : p \in Executed(t)} = DOMAIN traces[t].Events
        /\ \A p \in Executed(t) :
              /\ Deref(traces[t].Events[widx[p]].Names)
                     = Append(ScopeNames(p), Node(p).name)
              /\ wst[p] = "inner" =>
                    /\ ~traces[t].Events[widx[p]].finished
                    /\ traces[t].Events[widx[p]].Error = <<>>
              /\ wst[p] = "returned" =>
                    /\ traces[t].Events[widx[p]].finished
                    /\ IF wret[Child(p, 1)] = NilErr
                       THEN traces[t].Events[widx[p]].Error = <<>>
                       ELSE \E e \in Chain(wret[Child(p, 1)]) :
                               traces[t].Events[widx[p]].Error = ErrorText(e)

C33_SlotsStep ==
    \A t \in DOMAIN traces : \A i \in DOMAIN traces[t].Events :
        /\ t \in DOMAIN traces'
        /\ i \in DOMAIN traces'[t].Events
        /\ Deref(traces[t].Events[i].Names)' = Deref(traces[t].Events[i].Names)
        /\ traces'[t].Events[i] # traces[t].Events[i] => Finishing(t, i)

\* C33: every call of newEvent returns an index that no other event of the
\* trace has, and recordFinish(idx, err) changes only the event at idx: with
\* parallel branches starting and finishing in any interleaving, the slots of
\* the steps that have begun are distinct and are exactly the events of the
\* trace, no step changes an event other than the one of the step that is
\* returning, and each event has the names of the step that created it and,
\* once that step has returned, its error.
C33_EventSlots == [](C33_SlotsState) /\ [][C33_SlotsStep]_vars

\* Traced(InParallel(Named("a", step), Named("b", step))) where the first step
\* fails: the branch b began first and finished last; its event is the first
\* and has no error, the event of a is the second and has the error.
C33_Witness ==
    /\ wpc = "done"
    /\ wf = TracedNode("none", InParallelNode(
                <<NamedNode("Named", "a", StepNode("fail")),
                  NamedNode("Named", "b", StepNode("ok"))>>))
    /\ widx[<<1, 2>>] = 1
    /\ widx[<<1, 1>>] = 2
    /\ traces[1].order = <<2, 1>>
    /\ Deref(traces[1].Events[1].Names) = <<"b">>
    /\ traces[1].Events[1].Error = <<>>
    /\ traces[1].Events[2].Error = <<"boom">>

\* C34: the Error of the event of a Named* step that failed is the message of
\* the error its callable returned with every NamedError layer removed, and
\* nothing else: the message of the root cause, without the names of the
\* Named* steps below, whichever variant made their wrappers.
C34_RecordedErrorText ==
    \A t \in DOMAIN traces : \A p \in Executed(t) :
        (wst[p] = "returned" /\ wret[Child(p, 1)] # NilErr) =>
            traces[t].Events[widx[p]].Error = ErrorText(Cause(wret[Child(p, 1)]))

(***************************************************************************)
(* Further properties of the parallel engine.                             *)
(***************************************************************************)
\* The sum of what steps 1..n add to the counter.
RECURSIVE SumOfAmounts(_)
SumOfAmounts(n) == IF n = 0 THEN 0 ELSE SumOfAmounts(n - 1) + Effect(n, NilErr)

\* C35: once the providers are expanded, InParallelWith calls every step of the
\* flat list exactly once, under either error policy and any Limit: no step is
\* ever called twice, and when the call has returned every step has been
\* called, also those that were started after a sibling had failed; so when no
\* step gave up on its cancelled context the counter is at the sum of all the
\* steps' amounts, whatever the interleaving.
C35_EveryStepOnce ==
    (ppc # "idle" /\ pp > Len(pprov)) =>
        /\ \A k, l \in DOMAIN pcalls : k # l => pcalls[k] # pcalls[l]
        /\ \A k \in DOMAIN pcalls : pcalls[k] \in 1..pall
        /\ ppc = "done" =>
              /\ {pcalls[k] : k \in DOMAIN pcalls} = 1..pall
              /\ (\A i \in DOMAIN ures : ures[i] # CanceledErr) =>
                     pcount = SumOfAmounts(pall)

\* A fail-fast call with Limit 1 over three steps has returned the error of
\* the first: the second and the third were started after that, with a
\* cancelled context, went on all the same, and the counter is at 15 - 5 + 21.
C35_Witness ==
    /\ ppc = "done"
    /\ ~popts.JoinErrors
    /\ popts.Limit = 1
    /\ pall = 3
    /\ pret = StepErr(0, 1)
    /\ ures = <<StepErr(0, 1), NilErr, NilErr>>
    /\ pcalls = <<1, 2, 3>>
    /\ pcount = 31

\* The units whose step returned an error.
Failed == {i \in DOMAIN ures : ures[i] # NilErr}

C36_HandOff ==
    popts.JoinErrors =>
        /\ \A i \in DOMAIN ust : ust[i] = "sending" => ~errsClosed
        /\ errsClosed =>
              /\ \A i \in DOMAIN ust : ust[i] = "done"
              /\ Len(cerrs) = Cardinality(Failed)
              /\ \A i \in Failed : \E k \in DOMAIN cerrs : cerrs[k] = ures[i]

\* C36: InParallelWith with JoinErrors = true returns whenever every step
\* returns, for any number of steps, also none, and any Limit: the hand-off to
\* the collecting goroutine never deadlocks, so that a call that was entered
\* always comes to return; when the channel is closed every unit is done and
\* the error of every unit that failed has been received; and no unit is
\* sending on the closed channel.
C36_JoinTermination ==
    /\ [](C36_HandOff)
    /\ (ppc # "idle" /\ popts.JoinErrors) ~> (ppc = "done")

\* A joining call with Limit 1 over three steps that all failed has returned
\* the three errors.
C36_Witness ==
    /\ ppc = "done"
    /\ popts.JoinErrors
    /\ popts.Limit = 1
    /\ pall = 3
    /\ errsClosed
    /\ pret = Join(<<StepErr(0, 1), StepErr(0, 2), StepErr(0, 3)>>)

\* A joining call over no step at all has returned nil.
C36_WitnessNoStep ==
    /\ ppc = "done"
    /\ popts.JoinErrors
    /\ pprov # <<>>
    /\ pall = 0
    /\ errsClosed
    /\ pret = NilErr

(***************************************************************************)
(* Further properties of the backoff predicate.                            *)
(***************************************************************************)
\* The nominal delay that a predicate with this configuration owes to a call
\* with this attempts argument, whatever was called before.
DelayOf(base, m, attempts) ==
    IF m = DefaultMultiplier
    THEN ShiftedDelay(base, attempts)
    ELSE FromNat(Nominal(ToNat(base), m, ClampedAttempts(attempts)))

\* C38: backoff predicates are stateless: the delay a predicate built by
\* ExponentialBackoff (default or custom multiplier) chooses depends only on
\* its configuration and the attempts argument, never on earlier calls, and
\* no call modifies the configuration: the base the closure holds is the base
\* the predicate was made with.
C38_BackoffStateless ==
    bpc = "ready" =>
        /\ bbase = bbase0
        /\ bcount >= 1 => bdelay = DelayOf(bbase0, bmult, battempts)

(***************************************************************************)
(* Scope of the cancellation of the parallel engine.                       *)
(***************************************************************************)
\* C39: fail-fast cancellation is scoped: a failing unit of InParallelWith
\* cancels the context derived for the units of that call (subCtx) and never
\* the context the caller passed in, so a step of an enclosing scope that runs
\* after the call (the next step of DoWith with JoinErrors, an OnError
\* fallback) reads no error from its context.
C39_FailFastScoped ==
    /\ gonce => subDone
    /\ ~ctxDone
    /\ pafter # <<>> => pafter = <<NilErr>>

\* A fail-fast call over three steps has returned the error of a failing
\* unit, the step of another unit has given up with the context.Canceled of
\* subCtx, and the step that ran after the call has read a nil ctx.Err().
C39_Witness ==
    /\ ppc = "done"
    /\ ~popts.JoinErrors
    /\ pall = 3
    /\ pret # NilErr
    /\ subDone
    /\ \E i \in Units : ures[i] = CanceledErr
    /\ pafter = <<NilErr>>

(***************************************************************************)
(* Nested traces.                                                          *)
(***************************************************************************)
\* Trace t holds the event of the Named* step at p: the event whose Names is
\* the slice addName made at p.
Recorded(p, t) ==
    \E k \in DOMAIN traces[t].Events : traces[t].Events[k].Names = NamesRef(p)

\* C40: nested traces are isolated: the event of a Named* step whose
\* execution has begun is in the trace of the nearest Traced that encloses it
\* and in no other trace, so a step inside an inner Traced is never in the
\* outer trace and a step that runs after the inner Traced returned is in the
\* outer trace again; and the path of the event begins with the names of the
\* scopes around every Traced that encloses the step.
C40_NestedTracesIsolated ==
    \A p \in WPaths :
        (Node(p).op = "Named" /\ wst[p] \in {"inner", "returned"}) =>
            /\ \A t \in DOMAIN traces : Recorded(p, t) <=> t = TraceOf(p)
            /\ \A r \in WPaths :
                   (Node(r).op = "Traced" /\ IsPrefix(r, p)) =>
                       /\ IsPrefix(ScopeNames(r), Deref(NamesRef(p)))
                       /\ \E k \in DOMAIN traces[TraceOf(p)].Events :
                              Deref(traces[TraceOf(p)].Events[k].Names)
                                  = Append(ScopeNames(p), Node(p).name)

\* Traced(Do(Named("a", Traced(Named("b", step))), Named("b", step))) has
\* returned: the outer trace has the events [a] and [b], the inner trace has
\* the event [a, b] and nothing else.
C40_Witness ==
    /\ wpc = "done"
    /\ wf = TracedNode("none", DoNode(
                <<NamedNode("Named", "a",
                      TracedNode("none", NamedNode("Named", "b", StepNode("ok")))),
                  NamedNode("Named", "b", StepNode("ok"))>>))
    /\ Len(traces) = 2
    /\ Len(traces[1].Events) = 2
    /\ Deref(traces[1].Events[1].Names) = <<"a">>
    /\ Deref(traces[1].Events[2].Names) = <<"b">>
    /\ Len(traces[2].Events) = 1
    /\ Deref(traces[2].Events[1].Names) = <<"a", "b">>
    /\ traces[2].returned

(***************************************************************************)
(* Specifications.                                                         *)
(***************************************************************************)
Init ==
    /\ SerialInit
    /\ ParallelInit
    /\ RetryInit
    /\ BackoffInit
    /\ NamesInit
    /\ FilterInit
    /\ AlgebraInit
    /\ CarrierInit

SpecSerial ==
    /\ Init
    /\ [][SerialNext]_vars

SpecParallel ==
    /\ Init
    /\ [][ParallelNext]_vars

SpecRetry ==
    /\ Init
    /\ [][RetryNext]_vars

\* Retry(step, UpTo(n)) alone: the calls of Retry with one UpTo predicate.
RetryUpToNext ==
    \/ rpc = "idle" /\ \E first \in 0..MaxExecs, n \in 0..MaxUpTo :
           Retry(first, <<[kind |-> "UpTo", n |-> n, check |-> "always"]>>)
    \/ RetryCallStep
    \/ RetryNextPredicate
    \/ RetryAllApproved

\* The retry loop is sequential code: as long as it can take a step, it does.
SpecRetryUpTo ==
    /\ Init
    /\ [][RetryUpToNext]_vars
    /\ WF_vars(RetryUpToNext)

\* The calls of one ExponentialBackoff predicate.
SpecBackoff ==
    /\ Init
    /\ [][BackoffNext]_vars

\* The runs of one workflow built from Named, Traced, Do and InParallel.
SpecNames ==
    /\ Init
    /\ [][NamesNext]_vars

\* Filter applied to a trace, and writes to either trace afterwards.
SpecFilter ==
    /\ Init
    /\ [][FilterNext]_vars

\* The runs of OnError, Collect, Render, Apply and the stage combinators.
SpecAlgebra ==
    /\ Init
    /\ [][AlgebraNext]_vars

\* The runs of a probe under nested wrappers.
SpecCarrier ==
    /\ Init
    /\ [][CarrierNext]_vars

\* The runs of either a serial or a parallel call over providers.
SpecExpansion ==
    /\ Init
    /\ [][(ppc = "idle" /\ SerialNext) \/ (spc = "idle" /\ ParallelNext)]_vars

\* The runs of the parallel engine in which a goroutine that can take a step
\* takes it in the end: every step returns, and the scheduler leaves no
\* runnable goroutine behind.
SpecParallelFair ==
    /\ Init
    /\ [][ParallelNext]_vars
    /\ WF_vars(ParallelNext)

====
